---- MODULE Spec2Model ----
(***************************************************************************)
(* Backlink tree of Notebook Navigator (src/src/utils/backlinkUtils.ts)    *)
(* and its consumer BacklinkList (src/unnamed/part_002).                   *)
(*                                                                         *)
(* A JavaScript string is a sequence of one-character strings, so that     *)
(* length, startsWith, substring, split, join and replace are computed     *)
(* character by character as the code computes them.                       *)
(***************************************************************************)
EXTENDS Integers, Sequences, FiniteSets, TLC

\* ------------------------------------------------------------------------
\* Bounds of the model
\* ------------------------------------------------------------------------
\* metadata / vault change events in one run
MaxEdits == 2
\* renders of BacklinkList that rebuild the tree (useMemo recomputations)
MaxBuilds == 2

\* ------------------------------------------------------------------------
\* JavaScript values and string primitives
\* ------------------------------------------------------------------------
\* null / undefined node reference (node identities are 1, 2, ...)
NULL == 0
\* outcome of dereferencing undefined (a TypeError would be raised)
TypeError == -1
\* an optional array field (fileCache.links, fileCache.frontmatterLinks)
Undefined == [def |-> FALSE, val |-> << >>]
Defined(items) == [def |-> TRUE, val |-> items]

EmptyString == << >>
Slash == <<"/">>

\* String.prototype.startsWith
StartsWith(s, p) ==
    /\ Len(p) <= Len(s)
    /\ SubSeq(s, 1, Len(p)) = p

\* String.prototype.endsWith (the `$` anchor of the extension regex)
EndsWith(s, p) ==
    /\ Len(p) <= Len(s)
    /\ SubSeq(s, Len(s) - Len(p) + 1, Len(s)) = p

\* String.prototype.substring(1)
Substring1(s) == SubSeq(s, 2, Len(s))

\* String.prototype.indexOf, 1-based; 0 when pat does not occur
IndexOf(s, pat) ==
    LET hits == { i \in 1..(Len(s) - Len(pat) + 1) :
                    SubSeq(s, i, i + Len(pat) - 1) = pat }
    IN  IF hits = {} THEN 0
        ELSE CHOOSE i \in hits : \A j \in hits : i <= j

\* String.prototype.replace(pat, '') with a string pattern:
\* removes the FIRST occurrence of pat, wherever it is
ReplaceFirstWithEmpty(s, pat) ==
    LET i == IndexOf(s, pat)
    IN  IF i = 0 THEN s
        ELSE SubSeq(s, 1, i - 1) \o SubSeq(s, i + Len(pat), Len(s))

RECURSIVE SplitFrom(_, _, _)
\* segments of s from position i on, cur being the segment under construction
SplitFrom(s, i, cur) ==
    IF i > Len(s) THEN << cur >>
    ELSE IF s[i] = "/" THEN << cur >> \o SplitFrom(s, i + 1, EmptyString)
    ELSE SplitFrom(s, i + 1, Append(cur, s[i]))

\* String.prototype.split('/'): "" gives [""], "a/" gives ["a", ""]
Split(s) == SplitFrom(s, 1, EmptyString)

RECURSIVE Join(_)
\* Array.prototype.join('/')
Join(parts) ==
    IF Len(parts) = 0 THEN EmptyString
    ELSE IF Len(parts) = 1 THEN parts[1]
    ELSE parts[1] \o Slash \o Join(Tail(parts))

\* Array.prototype.filter(part => part.length > 0)
FilterNonEmpty(parts) == SelectSeq(parts, LAMBDA p : Len(p) > 0)

ExtMd == <<".", "m", "d">>
ExtCanvas == <<".", "c", "a", "n", "v", "a", "s">>
ExtBase == <<".", "b", "a", "s", "e">>

\* backlinkPath.replace(/\.(md|canvas|base)$/, '')
StripExtension(s) ==
    IF EndsWith(s, ExtMd) THEN SubSeq(s, 1, Len(s) - Len(ExtMd))
    ELSE IF EndsWith(s, ExtCanvas) THEN SubSeq(s, 1, Len(s) - Len(ExtCanvas))
    ELSE IF EndsWith(s, ExtBase) THEN SubSeq(s, 1, Len(s) - Len(ExtBase))
    ELSE s

\* ------------------------------------------------------------------------
\* The vault
\* ------------------------------------------------------------------------
\* "a.md": a note at the vault root with a one-character name
FileA == <<"a">> \o ExtMd
\* "t/b.md": a note in folder t
FileTB == <<"t", "/", "b">> \o ExtMd
\* "t/b/c.canvas": a canvas below folder t/b
FileTBC == <<"t", "/", "b", "/", "c">> \o ExtCanvas
\* "zz.md": a path no file of the vault has (target of a dangling link)
FileZZ == <<"z", "z">> \o ExtMd

AllPaths == { FileA, FileTB, FileTBC, FileZZ }
InitialVault == { FileA, FileTB, FileTBC }

\* the link texts a note may contain
LinkTexts == AllPaths

\* values of settings.backlinksFolderPath
FolderPaths == { EmptyString, <<"t">> }

\* vault.getMarkdownFiles(): the files of the vault with extension md
IsMarkdown(f) == EndsWith(f, ExtMd)
MarkdownFiles(v) == { f \in v : IsMarkdown(f) }

\* getFileCache(file) === null: the host has not indexed the file
NoCache == [cached |-> FALSE, links |-> Undefined, frontmatterLinks |-> Undefined]

\* the result `null` of getFirstLinkpathDest (no file has the empty path)
NoFile == EmptyString

\* app.metadataCache.getFirstLinkpathDest(link.link, file.path): the file of
\* the vault the link text names, or null for a dangling link
getFirstLinkpathDest(v, link) == IF link \in v THEN link ELSE NoFile

\* all orders in which an enumeration may yield the elements of S
RECURSIVE Orders(_)
Orders(S) ==
    IF S = {} THEN { << >> }
    ELSE UNION { { <<x>> \o rest : rest \in Orders(S \ {x}) } : x \in S }

\* ------------------------------------------------------------------------
\* buildBacklinkTree
\* ------------------------------------------------------------------------
\* allBacklinksCache is a JavaScript Map: a sequence of entries in insertion
\* order, each a key with its Set of file paths
MapHas(m, k) == \E i \in 1..Len(m) : m[i].key = k
MapIndex(m, k) == CHOOSE i \in 1..Len(m) : m[i].key = k
MapGet(m, k) == m[MapIndex(m, k)].notes
MapKeys(m) == { m[i].key : i \in 1..Len(m) }

\* the key with every occurrence of folderPath + "/" removed, as
\* String.prototype.replaceAll would
RECURSIVE ReplaceAllWithEmpty(_, _)
ReplaceAllWithEmpty(s, pat) ==
    IF IndexOf(s, pat) = 0 THEN s
    ELSE ReplaceAllWithEmpty(ReplaceFirstWithEmpty(s, pat), pat)

BacklinkPathReplaceAll(linkFilePath, folderPath) ==
    StripExtension(
        IF folderPath # EmptyString
        THEN ReplaceAllWithEmpty(linkFilePath, folderPath \o Slash)
        ELSE linkFilePath)

\* lines 85-92: the backlink key of a resolved link target
BacklinkPath(linkFilePath, folderPath) ==
    StripExtension(
        IF folderPath # EmptyString
        THEN ReplaceFirstWithEmpty(linkFilePath, folderPath \o Slash)
        ELSE linkFilePath)

\* the entry of the key replaced by a set with this note alone
AddNoteReplacesSet(m, backlinkPath, filePath) ==
    IF MapHas(m, backlinkPath)
    THEN [m EXCEPT ![MapIndex(m, backlinkPath)].notes = {filePath}]
    ELSE Append(m, [key |-> backlinkPath, notes |-> {filePath}])

\* lines 93-96: allBacklinksCache.get(backlinkPath).add(file.path), the
\* entry being created first when the key is new
AddNote(m, backlinkPath, filePath) ==
    IF MapHas(m, backlinkPath)
    THEN [m EXCEPT ![MapIndex(m, backlinkPath)].notes = @ \cup {filePath}]
    ELSE Append(m, [key |-> backlinkPath, notes |-> {filePath}])

\* lines 78: fileCache.links?.concat(fileCache.frontmatterLinks || [])
ConcatLinks(fileCache) ==
    IF ~fileCache.links.def THEN Undefined
    ELSE Defined(fileCache.links.val \o
                 (IF fileCache.frontmatterLinks.def
                  THEN fileCache.frontmatterLinks.val ELSE << >>))

RECURSIVE LinkLoop(_, _, _, _, _, _)
\* the link loop without line 84: a target outside folderPath is not skipped
LinkLoopNoFolderCheck(acc, links, i, filePath, folderPath, v) ==
    IF i > Len(links) THEN acc
    ELSE
      LET linkFile == getFirstLinkpathDest(v, links[i])
          seen == [acc EXCEPT !.resolved = @ + 1]
      IN  IF linkFile = NoFile
          THEN LinkLoop(seen, links, i + 1, filePath, folderPath, v)
          ELSE LinkLoop(
                 [seen EXCEPT !.map =
                     AddNote(@, BacklinkPath(linkFile, folderPath), filePath)],
                 links, i + 1, filePath, folderPath, v)

\* lines 80-97: the loop over the links of one file, from link i on.
\* acc.map is allBacklinksCache, acc.resolved counts resolver calls
LinkLoop(acc, links, i, filePath, folderPath, v) ==
    IF i > Len(links) THEN acc
    ELSE
      LET linkFile == getFirstLinkpathDest(v, links[i])
          seen == [acc EXCEPT !.resolved = @ + 1]
      IN  IF linkFile = NoFile
          THEN LinkLoop(seen, links, i + 1, filePath, folderPath, v)
          ELSE IF ~StartsWith(linkFile, folderPath)
          THEN LinkLoop(seen, links, i + 1, filePath, folderPath, v)
          ELSE LinkLoop(
                 [seen EXCEPT !.map =
                     AddNote(@, BacklinkPath(linkFile, folderPath), filePath)],
                 links, i + 1, filePath, folderPath, v)

RECURSIVE FileLoop(_, _, _, _, _, _)
\* lines 74-98: the first pass over allFiles, from file i on.
\* acc.cacheReads counts getFileCache calls
FileLoop(acc, allFiles, i, folderPath, mc, v) ==
    IF i > Len(allFiles) THEN acc
    ELSE
      LET file == allFiles[i]
          fileCache == mc[file]
          seen == [acc EXCEPT !.cacheReads = @ + 1]
          links == ConcatLinks(fileCache)
      IN  IF ~fileCache.cached
          THEN FileLoop(seen, allFiles, i + 1, folderPath, mc, v)
          ELSE IF ~links.def \/ Len(links.val) = 0
          THEN FileLoop(seen, allFiles, i + 1, folderPath, mc, v)
          ELSE FileLoop(LinkLoop(seen, links.val, 1, file, folderPath, v),
                        allFiles, i + 1, folderPath, mc, v)

\* a tree under construction: root is the Map of root-level nodes (name ->
\* node identity), heap the node objects, next the next fresh identity.
\* A node is [name, path, children (name -> identity), notesWithTag].
EmptyMap == << >>
MapOf(t, owner) == IF owner = NULL THEN t.root ELSE t.heap[owner].children

\* the node created with path: part instead of path: currentPath
EnsureNodePathIsName(t, owner, part, currentPath) ==
    IF part \in DOMAIN MapOf(t, owner) THEN t
    ELSE
      LET id == t.next
          node == [name |-> part, path |-> part,
                   children |-> << >>, notesWithTag |-> {}]
          heap1 == (id :> node) @@ t.heap
      IN  IF owner = NULL
          THEN [root |-> (part :> id) @@ t.root, heap |-> heap1, next |-> id + 1]
          ELSE [root |-> t.root,
                heap |-> [heap1 EXCEPT ![owner].children = (part :> id) @@ @],
                next |-> id + 1]

\* lines 113-120: currentLevel.set(part, {name, path, children, notesWithTag})
\* when currentLevel has no entry for part; owner is the node whose children
\* map currentLevel is (NULL for root)
EnsureNode(t, owner, part, currentPath) ==
    IF part \in DOMAIN MapOf(t, owner) THEN t
    ELSE
      LET id == t.next
          node == [name |-> part, path |-> currentPath,
                   children |-> EmptyMap, notesWithTag |-> {}]
          heap1 == (id :> node) @@ t.heap
      IN  IF owner = NULL
          THEN [root |-> (part :> id) @@ t.root, heap |-> heap1, next |-> id + 1]
          ELSE [root |-> t.root,
                heap |-> [heap1 EXCEPT ![owner].children = (part :> id) @@ @],
                next |-> id + 1]

RECURSIVE PartLoop(_, _, _, _, _)
\* the part loop without the test of line 125: notes are assigned at every
\* part of the key
PartLoopAssignsEveryPart(t, parts, i, owner, notes) ==
    IF i > Len(parts) THEN t
    ELSE
      LET part == parts[i]
          currentPath == Join(SubSeq(parts, 1, i))
          t1 == EnsureNode(t, owner, part, currentPath)
          node == MapOf(t1, owner)[part]
          t2 == [t1 EXCEPT !.heap[node].notesWithTag = notes]
      IN  PartLoop(t2, parts, i + 1, node, notes)

\* lines 109-130: parts.forEach((part, index) => ...), from index i on
\* (i is 1-based: index = i - 1)
PartLoop(t, parts, i, owner, notes) ==
    IF i > Len(parts) THEN t
    ELSE
      LET part == parts[i]
          currentPath == Join(SubSeq(parts, 1, i))
          t1 == EnsureNode(t, owner, part, currentPath)
          node == MapOf(t1, owner)[part]
          t2 == IF i = Len(parts)
                THEN [t1 EXCEPT !.heap[node].notesWithTag = notes]
                ELSE t1
      IN  PartLoop(t2, parts, i + 1, node, notes)

\* lines 103-106: strip one leading "/" and split
KeyParts(backlink) ==
    Split(IF StartsWith(backlink, Slash) THEN Substring1(backlink) ELSE backlink)

RECURSIVE EntryLoop(_, _, _)
\* lines 101-131: allBacklinksCache.forEach((notes, backlink) => ...)
EntryLoop(t, m, i) ==
    IF i > Len(m) THEN t
    ELSE EntryLoop(PartLoop(t, KeyParts(m[i].key), 1, NULL, m[i].notes), m, i + 1)

\* the first pass alone (allBacklinksCache with the counts of host calls);
\* nothing is scanned for an empty file list (lines 67-69)
FirstPass(allFiles, folderPath, mc, v) ==
    IF Len(allFiles) = 0
    THEN [map |-> << >>, cacheReads |-> 0, resolved |-> 0]
    ELSE FileLoop([map |-> << >>, cacheReads |-> 0, resolved |-> 0],
                  allFiles, 1, folderPath, mc, v)

\* buildBacklinkTree(allFiles, folderPath, app), allocating node identities
\* from firstId on
buildBacklinkTree(allFiles, folderPath, mc, v, firstId) ==
    LET empty == [root |-> EmptyMap, heap |-> << >>, next |-> firstId]
    IN  IF Len(allFiles) = 0 THEN empty
        ELSE EntryLoop(empty, FirstPass(allFiles, folderPath, mc, v).map, 1)

\* ------------------------------------------------------------------------
\* getTotalNoteCount, collectAllBacklinkPaths, findBacklinkNode
\* ------------------------------------------------------------------------
\* the cache keyed by the node's path instead of the node object
CacheKeyByPath(heap, id) == heap[id].path

\* the key under which noteCountCache (a WeakMap) holds a node: the node
\* object itself, that is its identity
CacheKey(heap, id) == id

\* Map.prototype.values() of a children map, as a sequence
RECURSIVE ValuesOf(_, _)
ValuesOf(children, names) ==
    IF names = {} THEN << >>
    ELSE LET n == CHOOSE x \in names : TRUE
         IN  << children[n] >> \o ValuesOf(children, names \ {n})
Values(children) == ValuesOf(children, DOMAIN children)

RECURSIVE getTotalNoteCount(_, _, _)
RECURSIVE ChildLoop(_, _, _, _)
\* the child loop adding each child's own notesWithTag.size instead of the
\* child's total
ChildLoopDirectOnly(r, kids, i, heap) ==
    IF i > Len(kids) THEN r
    ELSE ChildLoop([count |-> r.count + Cardinality(heap[kids[i]].notesWithTag),
                    cache |-> r.cache],
                   kids, i + 1, heap)

\* lines 156-158: for (const child of node.children.values()) count += ...
\* r is [count, cache]
ChildLoop(r, kids, i, heap) ==
    IF i > Len(kids) THEN r
    ELSE LET sub == getTotalNoteCount(kids[i], heap, r.cache)
         IN  ChildLoop([count |-> r.count + sub.count, cache |-> sub.cache],
                       kids, i + 1, heap)

\* getTotalNoteCount caching node.notesWithTag.size instead of the total
getTotalNoteCountCachesDirect(id, heap, cache) ==
    LET k == CacheKey(heap, id)
    IN  IF k \in DOMAIN cache
        THEN [count |-> cache[k], cache |-> cache]
        ELSE
          LET r == ChildLoop([count |-> Cardinality(heap[id].notesWithTag),
                              cache |-> cache],
                             Values(heap[id].children), 1, heap)
          IN  [count |-> r.count,
               cache |-> (k :> Cardinality(heap[id].notesWithTag)) @@ r.cache]

\* lines 147-164: the count returned for node id and noteCountCache afterwards
getTotalNoteCount(id, heap, cache) ==
    LET k == CacheKey(heap, id)
    IN  IF k \in DOMAIN cache
        THEN [count |-> cache[k], cache |-> cache]
        ELSE
          LET r == ChildLoop([count |-> Cardinality(heap[id].notesWithTag),
                              cache |-> cache],
                             Values(heap[id].children), 1, heap)
          IN  [count |-> r.count, cache |-> (k :> r.count) @@ r.cache]

RECURSIVE collectAllBacklinkPaths(_, _, _)
RECURSIVE CollectLoop(_, _, _, _)
\* the child loop calling collectAllBacklinkPaths(child) without the set:
\* what the children collect is lost
CollectLoopDropsResult(paths, kids, i, heap) == paths

\* lines 177-179: the loop over the children, all adding to the same set
CollectLoop(paths, kids, i, heap) ==
    IF i > Len(kids) THEN paths
    ELSE CollectLoop(collectAllBacklinkPaths(kids[i], heap, paths),
                     kids, i + 1, heap)

\* lines 174-182: collectAllBacklinkPaths(node, paths)
collectAllBacklinkPaths(id, heap, paths) ==
    CollectLoop(paths \cup {heap[id].path}, Values(heap[id].children), 1, heap)

\* Map.prototype.get: NULL stands for undefined
Get(map, part) == IF part \in DOMAIN map THEN map[part] ELSE NULL

\* line 212 missing: no test
NotFoundNever(currentNode) == FALSE

\* line 212: the test `!currentNode`
NotFound(currentNode) == currentNode = NULL

\* line 213: currentNode.children; reading a property of undefined raises
Dereference(t, currentNode) ==
    IF currentNode = NULL THEN TypeError ELSE currentNode

RECURSIVE FindLoop(_, _, _, _, _)
\* the walk without line 212: a missing segment is dereferenced
FindLoopUnchecked(t, parts, i, owner, currentNode) ==
    IF i > Len(parts) THEN currentNode
    ELSE LET found == Get(MapOf(t, owner), parts[i])
         IN  IF Dereference(t, found) = TypeError THEN TypeError
             ELSE FindLoop(t, parts, i + 1, found, found)

\* lines 210-216: the walk, from part i on; currentLevel is the children map
\* of node owner (the root map for NULL)
FindLoop(t, parts, i, owner, currentNode) ==
    IF i > Len(parts) THEN currentNode
    ELSE LET found == Get(MapOf(t, owner), parts[i])
         IN  IF NotFound(found) THEN NULL
             ELSE IF Dereference(t, found) = TypeError THEN TypeError
             ELSE FindLoop(t, parts, i + 1, found, found)

\* findBacklinkNode as a bare walk: no validation of path, no filtering of
\* empty segments
findBacklinkNodeNaive(path, t) ==
    LET p == IF StartsWith(path, Slash) THEN Substring1(path) ELSE path
    IN  FindLoop(t, Split(p), 1, NULL, NULL)

\* lines 191-217: findBacklinkNode(path, tree); the node's identity, or NULL
findBacklinkNode(path, t) ==
    IF path = EmptyString \/ Len(path) <= 1 THEN NULL
    ELSE
      LET p == IF StartsWith(path, Slash) THEN Substring1(path) ELSE path
          parts == FilterNonEmpty(Split(p))
      IN  IF Len(parts) = 0 THEN NULL
          ELSE FindLoop(t, parts, 1, NULL, NULL)

\* ------------------------------------------------------------------------
\* State
\* ------------------------------------------------------------------------
VARIABLES
    vault,              \* the paths of the files of the vault
    metadataCache,      \* app.metadataCache: markdown file -> its link cache
    folderPath,         \* plugin.settings.backlinksFolderPath
    tagTree,            \* BacklinkList's memoized tree: the root Map
    heap,               \* every node object allocated so far (old trees too)
    nextId,             \* the identity the next allocated node gets
    noteCountCache,     \* the module-level WeakMap of getTotalNoteCount
    allBacklinksCache,  \* the first pass of the latest build (key -> notes) and
                        \* the host calls it made
    last,               \* the latest query and what it returned
    edits,              \* vault and metadata changes so far; every one of
                        \* them bumps refreshCounter, so this is its value
    memoDeps,           \* refreshCounter as of the latest build (-1: none)
    builds,             \* builds so far
    folders,            \* the paths of the folders of the vault, the root aside
    lastDrop,           \* the latest drop event and what its handler did
    now,                \* the host's clock, in ms
    timers,             \* the host's pending timeouts: [id, due]
    nextTimer,          \* the handle the next setTimeout returns
    fileListRefreshTimer, \* NotebookNavigatorView.fileListRefreshTimer
    pendingCountUpdate, \* NotebookNavigatorView.pendingCountUpdate
    lastCall,           \* when debouncedFileListRefresh was last called (-1: never)
    refreshed,          \* refreshFileList runs of the timer callback since then
    leaves,             \* the workspace's leaves: leaf -> its view type
    pendingViewStates,  \* the activateView calls awaiting setViewState
    revealedLeaf,       \* the leaf workspace.revealLeaf was last called with
    activations,        \* calls of activateView so far
    overlapped,         \* a leaf was created while a setViewState was pending
    pinnedNotes,        \* settings.pinnedNotes: folder path -> file paths
    saves,              \* calls of saveSettings so far
    cleanups,           \* calls of cleanupPinnedNotes so far
    localStorage,       \* the four items the view keeps in localStorage
    expandedFolders,    \* NotebookNavigatorView.expandedFolders, in insertion order
    selectedFolder,     \* NotebookNavigatorView.selectedFolder (its path)
    selectedFile,       \* NotebookNavigatorView.selectedFile (its path)
    leftPaneWidth,      \* settings.leftPaneWidth
    loads,              \* calls of loadState so far
    closed,             \* onClose has run
    resizing,           \* NotebookNavigatorView.resizing
    documentListeners,  \* the view's listeners attached to document
    handleListener,     \* the mousedown listener is on the resize handle
    styleWidth          \* leftPane.style.width, in px

\* the variables of the backlink tree and its queries
treeVars == << vault, metadataCache, folderPath, tagTree, heap, nextId,
               noteCountCache, allBacklinksCache, last, edits, memoDeps, builds >>

\* the variables of the debounced file-list refresh
timerVars == << now, timers, nextTimer, fileListRefreshTimer,
                pendingCountUpdate, lastCall, refreshed >>

\* the variables of drag and drop
dropVars == << folders, lastDrop >>

\* the variables of the plugin's view activation
leafVars == << leaves, pendingViewStates, revealedLeaf, activations, overlapped >>

\* the variables of the plugin's pinned notes
pinVars == << pinnedNotes, saves, cleanups >>

\* the variables of the view's stored state
stateVars == << localStorage, expandedFolders, selectedFolder, selectedFile,
                leftPaneWidth, loads >>

\* the variables of the view's closing
closeVars == << closed, resizing, documentListeners, handleListener, styleWidth >>

\* the variables of the plugin object and of the view's lifecycle
restVars == << leafVars, pinVars, stateVars, closeVars >>

vars == << treeVars, timerVars, dropVars, restVars >>

\* what the backlink tree and its queries leave alone
viewVars == << timerVars, dropVars, restVars >>

\* the current tree as the operators above take it
Tree == [root |-> tagTree, heap |-> heap, next |-> nextId]

RECURSIVE Reach(_, _)
\* the nodes reachable from the nodes of `frontier` through children maps
Reach(frontier, h) ==
    IF frontier = {} THEN {}
    ELSE frontier \cup
         Reach(UNION { { h[n].children[c] : c \in DOMAIN h[n].children } :
                       n \in frontier }, h)

\* the node objects of the current tree
TreeNodes == Reach({ tagTree[n] : n \in DOMAIN tagTree }, heap)

NoQuery == [op |-> "none", node |-> NULL, path |-> EmptyString,
            count |-> 0, hit |-> FALSE, paths |-> {}, result |-> NULL]

\* everything here runs on the one JavaScript thread: a call returns before
\* the next event is handled
Idle == last.op = "none"

\* the folders the files of v lie in
FoldersOf(v) ==
    UNION { { Join(SubSeq(Split(f), 1, i)) : i \in 1..(Len(Split(f)) - 1) } :
            f \in v }

\* no drop event yet
NoDrop == [n |-> 0, handler |-> "none", sourcePath |-> EmptyString,
           targetPath |-> EmptyString, renamed |-> FALSE,
           newPath |-> EmptyString, moved |-> FALSE]

\* the view after construction (lines 320-321): no timer, no pending count
\* update
TimerInit ==
    /\ now = 0
    /\ timers = {}
    /\ nextTimer = 1
    /\ fileListRefreshTimer = NULL
    /\ pendingCountUpdate = FALSE
    /\ lastCall = -1
    /\ refreshed = 0

\* the workspace before the plugin has opened its view: no leaf
LeafInit ==
    /\ leaves = << >>
    /\ pendingViewStates = {}
    /\ revealedLeaf = NULL
    /\ activations = 0
    /\ overlapped = FALSE

\* settings.pinnedNotes with no folder in it
NoPinnedNotes == [def |-> TRUE, val |-> << >>]

PinInit ==
    /\ pinnedNotes = NoPinnedNotes
    /\ saves = 0
    /\ cleanups = 0

\* localStorage without the view's items
NoStorage == [expandedFolders |-> Undefined, selectedFolder |-> Undefined,
              selectedFile |-> Undefined, leftPaneWidth |-> Undefined]

\* DEFAULT_SETTINGS.leftPaneWidth
DefaultLeftPaneWidth == 300

\* the fields of a new view (lines 306-309)
FieldInit ==
    /\ expandedFolders = << >>
    /\ selectedFolder = Undefined
    /\ selectedFile = Undefined
    /\ leftPaneWidth = DefaultLeftPaneWidth
    /\ loads = 0

StateInit ==
    /\ localStorage = NoStorage
    /\ FieldInit

\* the view once onOpen has set the pane's width (line 377) and set up the
\* resize handle (lines 394, 657-703): open, not resizing, the mousedown
\* listener on the handle
CloseInit ==
    /\ closed = FALSE
    /\ resizing = FALSE
    /\ documentListeners = {}
    /\ handleListener = TRUE
    /\ styleWidth = DefaultLeftPaneWidth

RestInit == LeafInit /\ PinInit /\ StateInit /\ CloseInit

\* the view beside the backlink tree: the folders are those of the files,
\* and nothing has been dropped
ViewInit ==
    /\ folders = FoldersOf(vault)
    /\ lastDrop = NoDrop
    /\ TimerInit
    /\ RestInit

Init ==
    /\ vault = InitialVault
    /\ metadataCache = [f \in MarkdownFiles(AllPaths) |-> NoCache]
    /\ folderPath \in FolderPaths
    /\ tagTree = EmptyMap
    /\ heap = << >>
    /\ nextId = 1
    /\ noteCountCache = << >>
    /\ allBacklinksCache = [map |-> << >>, cacheReads |-> 0, resolved |-> 0]
    /\ last = NoQuery
    /\ edits = 0
    /\ memoDeps = -1
    /\ builds = 0
    /\ ViewInit

\* ------------------------------------------------------------------------
\* The host changes what the tree is built from
\* ------------------------------------------------------------------------
\* a note gains a link in its body: the host re-indexes it
AddLink(f, l) ==
    /\ Idle
    /\ edits < MaxEdits
    /\ f \in MarkdownFiles(vault)
    /\ metadataCache' = [metadataCache EXCEPT ![f] =
           [cached |-> TRUE,
            links |-> Defined(@.links.val \o << l >>),
            frontmatterLinks |-> @.frontmatterLinks]]
    /\ edits' = edits + 1
    /\ UNCHANGED << vault, folderPath, tagTree, heap, nextId, noteCountCache,
                    allBacklinksCache, last, memoDeps, builds >>
    /\ UNCHANGED viewVars

\* a note gains a link in its frontmatter
AddFrontmatterLink(f, l) ==
    /\ Idle
    /\ edits < MaxEdits
    /\ f \in MarkdownFiles(vault)
    /\ metadataCache' = [metadataCache EXCEPT ![f] =
           [cached |-> TRUE,
            links |-> @.links,
            frontmatterLinks |-> Defined(@.frontmatterLinks.val \o << l >>)]]
    /\ edits' = edits + 1
    /\ UNCHANGED << vault, folderPath, tagTree, heap, nextId, noteCountCache,
                    allBacklinksCache, last, memoDeps, builds >>
    /\ UNCHANGED viewVars

\* a file is deleted: it leaves the vault and the metadata cache
DeleteFile(f) ==
    /\ Idle
    /\ edits < MaxEdits
    /\ f \in vault
    /\ vault' = vault \ {f}
    /\ metadataCache' = [g \in DOMAIN metadataCache |->
                           IF g = f THEN NoCache ELSE metadataCache[g]]
    /\ edits' = edits + 1
    /\ UNCHANGED << folderPath, tagTree, heap, nextId, noteCountCache,
                    allBacklinksCache, last, memoDeps, builds >>
    /\ UNCHANGED viewVars

\* ------------------------------------------------------------------------
\* BacklinkList and the queries on its tree
\* ------------------------------------------------------------------------
\* the nodes of earlier trees are garbage once the tree is rebuilt; those
\* that noteCountCache still has an entry for are kept, the others are gone
Retained ==
    LET keep == { id \in DOMAIN heap : CacheKey(heap, id) \in DOMAIN noteCountCache }
    IN  [id \in keep |-> heap[id]]

\* BacklinkList's useMemo recomputes the tree when refreshCounter is not
\* what it was at the latest build, from the markdown files of the vault in
\* the order the host enumerates them
Build(files) ==
    /\ Idle
    /\ builds < MaxBuilds
    /\ memoDeps # edits
    /\ files \in Orders(MarkdownFiles(vault))
    /\ LET t == buildBacklinkTree(files, folderPath, metadataCache, vault, nextId)
       IN  /\ tagTree' = t.root
           /\ heap' = t.heap @@ Retained
           /\ nextId' = t.next
    /\ LET fp == FirstPass(files, folderPath, metadataCache, vault)
       IN  allBacklinksCache' =
             [map |-> [k \in MapKeys(fp.map) |-> MapGet(fp.map, k)],
              cacheReads |-> fp.cacheReads, resolved |-> fp.resolved]
    /\ builds' = builds + 1
    /\ memoDeps' = edits
    /\ UNCHANGED << vault, metadataCache, folderPath, noteCountCache, last, edits >>
    /\ UNCHANGED viewVars

\* renderBacklinkNode(tagNode): getTotalNoteCount on a node of the tree
Count(id) ==
    /\ Idle
    /\ id \in TreeNodes
    /\ LET r == getTotalNoteCount(id, heap, noteCountCache)
       IN  /\ noteCountCache' = r.cache
           /\ last' = [NoQuery EXCEPT !.op = "count", !.node = id,
                         !.count = r.count,
                         !.hit = (CacheKey(heap, id) \in DOMAIN noteCountCache)]
    /\ UNCHANGED << vault, metadataCache, folderPath, tagTree, heap, nextId,
                    allBacklinksCache, edits, memoDeps, builds >>
    /\ UNCHANGED viewVars

\* collectAllBacklinkPaths(node) with no set supplied
Collect(id) ==
    /\ Idle
    /\ id \in TreeNodes
    /\ last' = [NoQuery EXCEPT !.op = "collect", !.node = id,
                  !.paths = collectAllBacklinkPaths(id, heap, {})]
    /\ UNCHANGED << vault, metadataCache, folderPath, tagTree, heap, nextId,
                    noteCountCache, allBacklinksCache, edits, memoDeps, builds >>
    /\ UNCHANGED viewVars

\* the segment lists whose spellings findBacklinkNode is asked for: every
\* key a build can produce, their prefixes, and chains that are in no tree
SegmentLists ==
    { << <<"a">> >>, << <<"t">> >>, << <<"b">> >>,
      << <<"t">>, <<"b">> >>, << <<"t">>, <<"b">>, <<"c">> >>,
      << <<"b">>, <<"c">> >>, << <<"t">>, <<"z">> >> }

RECURSIVE JoinDouble(_)
\* the segments joined by "//"
JoinDouble(parts) ==
    IF Len(parts) = 0 THEN EmptyString
    ELSE IF Len(parts) = 1 THEN parts[1]
    ELSE parts[1] \o Slash \o Slash \o JoinDouble(Tail(parts))

\* the ways a caller may spell the path of a segment list
Spellings(parts) ==
    { Join(parts), Slash \o Join(parts), Join(parts) \o Slash,
      JoinDouble(parts) }

\* the paths findBacklinkNode is called with
FindPaths ==
    { EmptyString, Slash, Slash \o Slash }
        \cup UNION { Spellings(sl) : sl \in SegmentLists }

\* findBacklinkNode(path, tagTree)
Find(path) ==
    /\ Idle
    /\ builds > 0
    /\ path \in FindPaths
    /\ last' = [NoQuery EXCEPT !.op = "find", !.path = path,
                  !.result = findBacklinkNode(path, Tree)]
    /\ UNCHANGED << vault, metadataCache, folderPath, tagTree, heap, nextId,
                    noteCountCache, allBacklinksCache, edits, memoDeps, builds >>
    /\ UNCHANGED viewVars

\* the caller takes the value the query returned
Return ==
    /\ ~Idle
    /\ last' = NoQuery
    /\ UNCHANGED << vault, metadataCache, folderPath, tagTree, heap, nextId,
                    noteCountCache, allBacklinksCache, edits, memoDeps, builds >>
    /\ UNCHANGED viewVars

\* what the host and BacklinkList do to the tree
Change ==
    \/ \E f \in MarkdownFiles(AllPaths), l \in LinkTexts : AddLink(f, l)
    \/ \E f \in MarkdownFiles(AllPaths), l \in LinkTexts : AddFrontmatterLink(f, l)
    \/ \E f \in AllPaths : DeleteFile(f)
    \/ \E files \in Orders(MarkdownFiles(vault)) : Build(files)

\* the runs in which the tree is only looked up: findBacklinkNode and
\* collectAllBacklinkPaths neither read nor write noteCountCache
NextLookup ==
    \/ Change
    \/ \E id \in DOMAIN heap : Collect(id)
    \/ \E path \in FindPaths : Find(path)
    \/ Return

SpecLookup == Init /\ [][NextLookup]_vars

\* the runs in which the tree is only counted
NextCount ==
    \/ Change
    \/ \E id \in DOMAIN heap : Count(id)
    \/ Return

SpecCount == Init /\ [][NextCount]_vars

\* ------------------------------------------------------------------------
\* findBacklinkNode on its own: it is exported and takes any Map of nodes.
\* The trees here are those the second pass yields for arbitrary keys,
\* among them the empty tree and trees with a node named "".
\* ------------------------------------------------------------------------
\* keys per sample tree
MaxKeys == 2

\* "", "/", "a", "t/b", "t//b", "/t", "t/b/"
ArbitraryKeys ==
    { EmptyString, Slash, <<"a">>, <<"t", "/", "b">>, <<"t", "/", "/", "b">>,
      <<"/", "t">>, <<"t", "/", "b", "/">> }

RECURSIVE EntriesOf(_)
\* one Map entry per key, each with the one note "a.md"
EntriesOf(keys) ==
    IF keys = {} THEN << >>
    ELSE LET k == CHOOSE x \in keys : TRUE
         IN  << [key |-> k, notes |-> {FileA}] >> \o EntriesOf(keys \ {k})

SampleTree(keys) ==
    EntryLoop([root |-> EmptyMap, heap |-> << >>, next |-> 1], EntriesOf(keys), 1)

InitFind ==
    /\ vault = InitialVault
    /\ metadataCache = [f \in MarkdownFiles(AllPaths) |-> NoCache]
    /\ folderPath = EmptyString
    /\ \E keys \in SUBSET ArbitraryKeys :
          /\ Cardinality(keys) <= MaxKeys
          /\ tagTree = SampleTree(keys).root
          /\ heap = SampleTree(keys).heap
          /\ nextId = SampleTree(keys).next
          /\ allBacklinksCache =
               [map |-> [k \in keys |-> {FileA}], cacheReads |-> 0, resolved |-> 0]
    /\ noteCountCache = << >>
    /\ last = NoQuery
    /\ edits = MaxEdits
    /\ memoDeps = MaxEdits
    /\ builds = MaxBuilds
    /\ ViewInit

NextFind ==
    \/ \E path \in FindPaths : Find(path)
    \/ Return

SpecFind == InitFind /\ [][NextFind]_vars

\* ------------------------------------------------------------------------
\* The backlink key of a link (lines 82-96), on vaults with folders whose
\* names share a prefix
\* ------------------------------------------------------------------------
\* the deepest folder of the sample vault
MaxDirs == 2

\* folder and file names: "t" is a prefix of "tt"
KeyNames == { <<"t">>, <<"t", "t">>, <<"a">> }

\* the extensions of the sample files: the three line 92 strips, and one it
\* leaves alone
KeyExtensions == { ExtMd, ExtCanvas, ExtBase, <<".", "p", "n", "g">> }

RECURSIVE KeyDirs(_)
\* the folder paths of depth n, as lists of names
KeyDirs(n) ==
    IF n = 0 THEN { << >> }
    ELSE { d \o << name >> : d \in KeyDirs(n - 1), name \in KeyNames }

\* the folders of the sample vault
KeyFolders == UNION { KeyDirs(n) : n \in 0..MaxDirs }

\* a file of every name and extension in every folder
KeyVault ==
    { Join(d \o << name \o ext >>) :
        d \in KeyFolders, name \in KeyNames, ext \in KeyExtensions }

\* the settings: no folder, or a folder of the vault
KeyFolderPaths == { Join(d) : d \in KeyFolders }

InitKey ==
    /\ vault = KeyVault
    /\ metadataCache = [f \in MarkdownFiles(AllPaths) |-> NoCache]
    /\ folderPath \in KeyFolderPaths
    /\ tagTree = EmptyMap
    /\ heap = << >>
    /\ nextId = 1
    /\ noteCountCache = << >>
    /\ allBacklinksCache = [map |-> << >>, cacheReads |-> 0, resolved |-> 0]
    /\ last = NoQuery
    /\ edits = MaxEdits
    /\ memoDeps = MaxEdits
    /\ builds = MaxBuilds
    /\ ViewInit

\* lines 80-97 for one link of the note a.md: the keys allBacklinksCache
\* has afterwards
GroupLink(link) ==
    /\ Idle
    /\ LET acc == LinkLoop([map |-> << >>, cacheReads |-> 1, resolved |-> 0],
                           << link >>, 1, FileA, folderPath, vault)
       IN  last' = [NoQuery EXCEPT !.op = "key", !.path = link,
                      !.paths = MapKeys(acc.map)]
    /\ UNCHANGED << vault, metadataCache, folderPath, tagTree, heap, nextId,
                    noteCountCache, allBacklinksCache, edits, memoDeps, builds >>
    /\ UNCHANGED viewVars

NextKey ==
    \/ \E link \in KeyVault \cup { FileZZ } : GroupLink(link)
    \/ Return

SpecKey == InitKey /\ [][NextKey]_vars

\* ------------------------------------------------------------------------
\* NotebookNavigatorView: the debounced refresh of the file list
\* ------------------------------------------------------------------------
\* the delay of the timer, in ms
Delay == 100

\* calls of debouncedFileListRefresh in a run
MaxCalls == 3

\* ticks of the clock in a run
MaxTicks == 8

\* the clock advances in steps of half the delay: two calls can be less
\* than, exactly, or more than the delay apart
TimeStep == Delay \div 2

\* the end of the runs
MaxTime == MaxTicks * TimeStep

\* clearTimeout(id): the pending timeout with that handle, if any, is
\* dropped
clearTimeout(pending, id) == { t \in pending : t.id # id }

\* setTimeout(callback, delay): a timeout due after `delay` ms
setTimeout(pending, id, delay) == pending \cup { [id |-> id, due |-> now + delay] }

\* time passes
Tick ==
    /\ now + TimeStep <= MaxTime
    /\ now' = now + TimeStep
    /\ UNCHANGED << timers, nextTimer, fileListRefreshTimer,
                    pendingCountUpdate, lastCall, refreshed >>
    /\ UNCHANGED << treeVars, dropVars, restVars >>

\* debouncedFileListRefresh without lines 751-753: the earlier timer is
\* left pending
debouncedFileListRefreshNoClear ==
    /\ nextTimer <= MaxCalls
    /\ now + Delay <= MaxTime
    /\ pendingCountUpdate' = TRUE
    /\ timers' = setTimeout(timers, nextTimer, Delay)
    /\ fileListRefreshTimer' = nextTimer
    /\ nextTimer' = nextTimer + 1
    /\ lastCall' = now
    /\ refreshed' = 0
    /\ UNCHANGED now
    /\ UNCHANGED << treeVars, dropVars, restVars >>

\* lines 749-766: debouncedFileListRefresh(), the handler of the vault's
\* create, delete and rename events of files and of its modify events
\* (lines 412-441)
debouncedFileListRefresh ==
    /\ nextTimer <= MaxCalls
    /\ now + Delay <= MaxTime
    /\ pendingCountUpdate' = TRUE
    /\ timers' = setTimeout(
                   IF fileListRefreshTimer # NULL
                   THEN clearTimeout(timers, fileListRefreshTimer)
                   ELSE timers,
                   nextTimer, Delay)
    /\ fileListRefreshTimer' = nextTimer
    /\ nextTimer' = nextTimer + 1
    /\ lastCall' = now
    /\ refreshed' = 0
    /\ UNCHANGED now
    /\ UNCHANGED << treeVars, dropVars, restVars >>

\* lines 759-765: the host runs the callback of a timeout that is due:
\* refreshFileList(), then updateFolderCounts() if a count update is
\* pending. The host runs it no sooner than its due time, and possibly
\* later
TimerCallback(t) ==
    /\ t \in timers
    /\ t.due <= now
    /\ timers' = timers \ { t }
    /\ refreshed' = refreshed + 1
    /\ pendingCountUpdate' = FALSE
    /\ UNCHANGED << now, nextTimer, fileListRefreshTimer, lastCall >>
    /\ UNCHANGED << treeVars, dropVars, restVars >>

InitDebounce == Init /\ folderPath = EmptyString

NextDebounce ==
    \/ Tick
    \/ debouncedFileListRefresh
    \/ \E t \in timers : TimerCallback(t)

\* the host's clock advances and a due timeout is run in the end
SpecDebounce ==
    /\ InitDebounce
    /\ [][NextDebounce]_vars
    /\ WF_vars(Tick)
    /\ WF_vars(\E t \in timers : TimerCallback(t))

\* ------------------------------------------------------------------------
\* Drag and drop: the drop handlers and the host's rename
\* ------------------------------------------------------------------------
\* drop events in a run
MaxDrops == 2

\* the path of the vault's root folder
RootPath == Slash

\* what app.vault.getAbstractFileByPath(path) returns: a TFile, a TFolder,
\* or null
getAbstractFileByPath(path) ==
    IF path \in vault THEN "TFile"
    ELSE IF path \in folders \/ path = RootPath THEN "TFolder"
    ELSE "null"

\* TAbstractFile.name: the last segment of the path; "" for the root
NameOf(path) ==
    IF path = RootPath THEN EmptyString
    ELSE Split(path)[Len(Split(path))]

\* fileSystemOps.isDescendant(parent, child): child lies below parent
isDescendant(parent, child) ==
    /\ child # parent
    /\ \/ parent = RootPath
       \/ StartsWith(child, parent \o Slash)

\* the host's normalizePath: no leading, trailing or doubled "/"
normalizePath(path) == Join(FilterNonEmpty(Split(path)))

\* path p after the item at `from` has been moved to `to`
Moved(p, from, to) ==
    IF p = from THEN to
    ELSE IF StartsWith(p, from \o Slash)
    THEN to \o SubSeq(p, Len(from) + 1, Len(p))
    ELSE p

\* app.fileManager.renameFile(file, newPath): the host moves the item and
\* what lies below it, or throws: always when the destination exists
renameFile(file, newPath, hostOk) ==
    LET to == normalizePath(newPath)
        ok == hostOk /\ getAbstractFileByPath(to) = "null"
    IN  /\ vault' = IF ok THEN { Moved(p, file, to) : p \in vault } ELSE vault
        /\ folders' = IF ok THEN { Moved(p, file, to) : p \in folders }
                      ELSE folders

\* the paths a drop event can carry: those of the rendered items, no path,
\* and the path of no item
DropPaths == vault \cup folders \cup { RootPath, EmptyString, FileZZ }

\* the record of a drop the handler returns from without a rename
Rejected(handler, sourcePath, targetPath) ==
    /\ lastDrop' = [n |-> lastDrop.n + 1, handler |-> handler,
                    sourcePath |-> sourcePath, targetPath |-> targetPath,
                    renamed |-> FALSE, newPath |-> EmptyString,
                    moved |-> FALSE]
    /\ UNCHANGED << vault, folders >>

\* the record of a drop whose handler calls renameFile
Renamed(handler, sourcePath, targetPath, newPath, hostOk) ==
    /\ lastDrop' = [n |-> lastDrop.n + 1, handler |-> handler,
                    sourcePath |-> sourcePath, targetPath |-> targetPath,
                    renamed |-> TRUE, newPath |-> newPath,
                    moved |-> hostOk /\
                              getAbstractFileByPath(normalizePath(newPath)) = "null"]
    /\ renameFile(sourcePath, newPath, hostOk)

\* what a drop leaves alone
DropFrame ==
    /\ UNCHANGED << metadataCache, folderPath, tagTree, heap, nextId,
                    noteCountCache, allBacklinksCache, last, edits, memoDeps,
                    builds >>
    /\ UNCHANGED << timerVars, restVars >>

\* lines 2204-2247: the drop handler of setupEventDelegation. targetPath is
\* the data-drop-path of the drop zone, "" when there is no zone or no
\* attribute; sourcePath is the text of the drag
delegatedDrop(sourcePath, targetPath, hostOk) ==
    /\ lastDrop.n < MaxDrops
    /\ LET sourceFile == getAbstractFileByPath(sourcePath)
           targetFolder == getAbstractFileByPath(targetPath)
           newPath == targetPath \o Slash \o NameOf(sourcePath)
       IN  IF targetPath = EmptyString
           THEN Rejected("delegated", sourcePath, targetPath)
           ELSE IF sourceFile = "null" \/ targetFolder # "TFolder"
           THEN Rejected("delegated", sourcePath, targetPath)
           ELSE IF sourcePath = targetPath \/ isDescendant(sourcePath, targetPath)
           THEN Rejected("delegated", sourcePath, targetPath)
           ELSE IF getAbstractFileByPath(newPath) # "null"
           THEN Rejected("delegated", sourcePath, targetPath)
           ELSE Renamed("delegated", sourcePath, targetPath, newPath, hostOk)
    /\ DropFrame

\* handleDrop without the test of line 2885
handleDropNoSelfCheck(sourcePath, targetPath, hostOk) ==
    /\ lastDrop.n < MaxDrops
    /\ LET sourceItem == getAbstractFileByPath(sourcePath)
           targetFolder == getAbstractFileByPath(targetPath)
           newPath == targetPath \o Slash \o NameOf(sourcePath)
       IN  IF sourcePath = EmptyString \/ targetPath = EmptyString
           THEN Rejected("hook", sourcePath, targetPath)
           ELSE IF sourceItem = "null" \/ targetFolder # "TFolder"
           THEN Rejected("hook", sourcePath, targetPath)
           ELSE IF getAbstractFileByPath(newPath) # "null"
           THEN Rejected("hook", sourcePath, targetPath)
           ELSE Renamed("hook", sourcePath, targetPath, newPath, hostOk)
    /\ DropFrame

\* lines 2868-2903: handleDrop of useDragAndDrop. targetPath is the
\* data-drop-path of the element dragged over, "" when there is none
handleDrop(sourcePath, targetPath, hostOk) ==
    /\ lastDrop.n < MaxDrops
    /\ LET sourceItem == getAbstractFileByPath(sourcePath)
           targetFolder == getAbstractFileByPath(targetPath)
           newPath == targetPath \o Slash \o NameOf(sourcePath)
       IN  IF sourcePath = EmptyString \/ targetPath = EmptyString
           THEN Rejected("hook", sourcePath, targetPath)
           ELSE IF sourceItem = "null" \/ targetFolder # "TFolder"
           THEN Rejected("hook", sourcePath, targetPath)
           ELSE IF \/ sourcePath = targetPath
                   \/ (sourceItem = "TFolder" /\ isDescendant(sourcePath, targetPath))
           THEN Rejected("hook", sourcePath, targetPath)
           ELSE IF getAbstractFileByPath(newPath) # "null"
           THEN Rejected("hook", sourcePath, targetPath)
           ELSE Renamed("hook", sourcePath, targetPath, newPath, hostOk)
    /\ DropFrame

\* a vault with a file name and a folder name that occur twice, and an
\* empty folder
DropFiles == { FileA, <<"t", "/">> \o FileA }
DropFolders == { <<"t">>, <<"t", "/", "u">>, <<"u">> }

InitDrop ==
    /\ vault = DropFiles
    /\ folders = DropFolders
    /\ metadataCache = [f \in MarkdownFiles(AllPaths) |-> NoCache]
    /\ folderPath = EmptyString
    /\ tagTree = EmptyMap
    /\ heap = << >>
    /\ nextId = 1
    /\ noteCountCache = << >>
    /\ allBacklinksCache = [map |-> << >>, cacheReads |-> 0, resolved |-> 0]
    /\ last = NoQuery
    /\ edits = 0
    /\ memoDeps = -1
    /\ builds = 0
    /\ lastDrop = NoDrop
    /\ TimerInit
    /\ RestInit

NextDrop ==
    \/ \E sourcePath \in DropPaths, targetPath \in DropPaths, hostOk \in BOOLEAN :
          delegatedDrop(sourcePath, targetPath, hostOk)
    \/ \E sourcePath \in DropPaths, targetPath \in DropPaths, hostOk \in BOOLEAN :
          handleDrop(sourcePath, targetPath, hostOk)

SpecDrop == InitDrop /\ [][NextDrop]_vars

\* the runs in which the tree is only built
SpecBuild == Init /\ [][Change]_vars

\* ------------------------------------------------------------------------
\* NotebookNavigatorPlugin: activating the view
\* ------------------------------------------------------------------------
\* calls of activateView in a run
MaxActivations == 3

\* the view types of a leaf
ViewTypeNotebook == "notebook-navigator"
ViewTypeEmpty == "empty"

\* workspace.getLeavesOfType(VIEW_TYPE_NOTEBOOK)
getLeavesOfType(type) == { l \in DOMAIN leaves : leaves[l] = type }

\* what the leaf and plugin actions leave alone
LeafFrame == UNCHANGED << treeVars, timerVars, dropVars, pinVars, stateVars, closeVars >>

\* lines 140-165, up to the await of line 156: with a navigator leaf the
\* first is revealed; with none, getLeftLeaf(false) makes a leaf (or gives
\* null) and setViewState is called on it. The host attaches the view at
\* some time before the promise of setViewState resolves: `attached` says
\* whether that is during the call
activateView(showAfterAttach, gotLeaf, attached) ==
    /\ activations < MaxActivations
    /\ activations' = activations + 1
    /\ IF getLeavesOfType(ViewTypeNotebook) # {}
       THEN /\ revealedLeaf' =
                 IF showAfterAttach
                 THEN CHOOSE l \in getLeavesOfType(ViewTypeNotebook) :
                         \A m \in getLeavesOfType(ViewTypeNotebook) : l <= m
                 ELSE revealedLeaf
            /\ UNCHANGED << leaves, pendingViewStates, overlapped >>
       ELSE IF ~gotLeaf
       THEN UNCHANGED << leaves, pendingViewStates, revealedLeaf, overlapped >>
       ELSE LET leaf == Cardinality(DOMAIN leaves) + 1
            IN  /\ leaves' = (leaf :> (IF attached THEN ViewTypeNotebook
                                       ELSE ViewTypeEmpty)) @@ leaves
                /\ pendingViewStates' = pendingViewStates \cup
                      { [leaf |-> leaf, showAfterAttach |-> showAfterAttach] }
                /\ overlapped' = (overlapped \/ pendingViewStates # {})
                /\ UNCHANGED revealedLeaf
    /\ LeafFrame

\* lines 236-241: revealFileInNavigator(file) calls activateView(true) when
\* there is no navigator leaf
revealFileInNavigator(gotLeaf, attached) ==
    /\ getLeavesOfType(ViewTypeNotebook) = {}
    /\ activateView(TRUE, gotLeaf, attached)

\* lines 156-159: the promise of setViewState(leaf) resolves: the leaf has
\* the navigator view, and activateView goes on to reveal it
setViewStateResolved(call) ==
    /\ call \in pendingViewStates
    /\ leaves' = [leaves EXCEPT ![call.leaf] = ViewTypeNotebook]
    /\ pendingViewStates' = pendingViewStates \ { call }
    /\ revealedLeaf' = IF call.showAfterAttach THEN call.leaf ELSE revealedLeaf
    /\ UNCHANGED << activations, overlapped >>
    /\ LeafFrame

NextLeaf ==
    \/ \E showAfterAttach \in BOOLEAN, gotLeaf \in BOOLEAN, attached \in BOOLEAN :
          activateView(showAfterAttach, gotLeaf, attached)
    \/ \E gotLeaf \in BOOLEAN, attached \in BOOLEAN :
          revealFileInNavigator(gotLeaf, attached)
    \/ \E call \in pendingViewStates : setViewStateResolved(call)

\* the plugin loaded, its view not yet open
InitLeaf == Init /\ folderPath = EmptyString

SpecLeaf == InitLeaf /\ [][NextLeaf]_vars

\* ------------------------------------------------------------------------
\* NotebookNavigatorPlugin: cleanupPinnedNotes
\* ------------------------------------------------------------------------
\* calls of cleanupPinnedNotes in a run, and the longest list of pinned paths
MaxCleanups == 2
MaxPinned == 2

\* the folders that have pinned notes, and what a pinned path may name:
\* a file, a file that is gone, a folder
PinnedKeys == { RootPath, <<"t">> }
PinnedPaths == { FileA, FileZZ, <<"t">> }
PinnedLists == UNION { [1..n -> PinnedPaths] : n \in 0..MaxPinned }

\* settings.pinnedNotes as loaded: an object whose keys are in insertion
\* order, or no object at all
PinnedObjects ==
    { << >> }
    \cup { << [key |-> k, paths |-> l] >> : k \in PinnedKeys, l \in PinnedLists }
    \cup { << [key |-> k[1], paths |-> l[1]], [key |-> k[2], paths |-> l[2]] >> :
             k \in { k \in PinnedKeys \X PinnedKeys : k[1] # k[2] },
             l \in PinnedLists \X PinnedLists }

\* lines 208-211: filePaths.filter(... instanceof TFile)
validFiles(filePaths) ==
    LET isFile(filePath) == getAbstractFileByPath(filePath) = "TFile"
    IN  SelectSeq(filePaths, isFile)

\* the loop without the delete of lines 219-222
RECURSIVE PinnedLoopKeepsEmpty(_, _)
PinnedLoopKeepsEmpty(rest, acc) ==
    IF rest = << >> THEN acc
    ELSE LET filePaths == Head(rest).paths
             valid == validFiles(filePaths)
             shorter == Len(valid) # Len(filePaths)
         IN  PinnedLoopKeepsEmpty(Tail(rest),
                 [pinned |-> Append(acc.pinned,
                                [key |-> Head(rest).key,
                                 paths |-> IF shorter THEN valid ELSE filePaths]),
                  changed |-> (acc.changed \/ shorter)])

\* lines 206-223: for (const folderPath in pinnedNotes): a list that lost a
\* path is replaced, a key whose list is empty is deleted, and either sets
\* `changed`
RECURSIVE PinnedLoop(_, _)
PinnedLoop(rest, acc) ==
    IF rest = << >> THEN acc
    ELSE LET filePaths == Head(rest).paths
             valid == validFiles(filePaths)
             shorter == Len(valid) # Len(filePaths)
             empty == Len(valid) = 0
             kept == [key |-> Head(rest).key,
                      paths |-> IF shorter THEN valid ELSE filePaths]
         IN  PinnedLoop(Tail(rest),
                 [pinned |-> IF empty THEN acc.pinned ELSE Append(acc.pinned, kept),
                  changed |-> (acc.changed \/ shorter \/ empty)])

\* what cleanupPinnedNotes leaves alone
PinFrame == UNCHANGED << treeVars, timerVars, dropVars, leafVars, stateVars, closeVars >>

\* lines 196-228
cleanupPinnedNotes ==
    /\ cleanups < MaxCleanups
    /\ cleanups' = cleanups + 1
    /\ IF ~pinnedNotes.def
       THEN UNCHANGED << pinnedNotes, saves >>
       ELSE LET done == PinnedLoop(pinnedNotes.val,
                                   [pinned |-> << >>, changed |-> FALSE])
            IN  /\ pinnedNotes' = [def |-> TRUE, val |-> done.pinned]
                /\ saves' = IF done.changed THEN saves + 1 ELSE saves
    /\ PinFrame

\* the plugin loaded with any stored pinned notes
InitPin ==
    /\ vault = InitialVault
    /\ metadataCache = [f \in MarkdownFiles(AllPaths) |-> NoCache]
    /\ folderPath = EmptyString
    /\ tagTree = EmptyMap
    /\ heap = << >>
    /\ nextId = 1
    /\ noteCountCache = << >>
    /\ allBacklinksCache = [map |-> << >>, cacheReads |-> 0, resolved |-> 0]
    /\ last = NoQuery
    /\ edits = 0
    /\ memoDeps = -1
    /\ builds = 0
    /\ folders = FoldersOf(vault)
    /\ lastDrop = NoDrop
    /\ TimerInit
    /\ LeafInit
    /\ StateInit
    /\ CloseInit
    /\ pinnedNotes \in { Undefined } \cup { [def |-> TRUE, val |-> o] : o \in PinnedObjects }
    /\ saves = 0
    /\ cleanups = 0

NextPin ==
    \/ cleanupPinnedNotes
    \/ \E f \in vault : DeleteFile(f)

SpecPin == InitPin /\ [][NextPin]_vars

\* ------------------------------------------------------------------------
\* NotebookNavigatorView: loadState and saveState
\* ------------------------------------------------------------------------
\* calls of loadState in a run
MaxLoads == 1

\* the bounds of the left pane's width (line 617)
PaneWidthMin == 150
PaneWidthMax == 600

Quote == <<"\"">>
Comma == <<",">>

RECURSIVE SplitOnComma(_, _, _)
\* the pieces of s between its commas, from position i on
SplitOnComma(s, i, cur) ==
    IF i > Len(s) THEN << cur >>
    ELSE IF s[i] = "," THEN << cur >> \o SplitOnComma(s, i + 1, EmptyString)
    ELSE SplitOnComma(s, i + 1, Append(cur, s[i]))

\* the digits parseInt and JSON numbers read, and their values
DecimalDigits == <<"0", "1", "2", "3", "4", "5", "6", "7", "8", "9">>
HexDigits == DecimalDigits \o <<"a", "b", "c", "d", "e", "f">>
DigitValue(c) == (CHOOSE i \in DOMAIN HexDigits : HexDigits[i] = c) - 1
IsDigit(c, radix) == \E i \in 1..radix : HexDigits[i] = c

RECURSIVE DigitsFrom(_, _, _)
\* the longest run of digits of s from position i on
DigitsFrom(s, i, radix) ==
    IF i > Len(s) \/ ~IsDigit(s[i], radix) THEN << >>
    ELSE << s[i] >> \o DigitsFrom(s, i + 1, radix)

RECURSIVE NumberOf(_, _)
\* the number a run of digits stands for
NumberOf(digits, radix) ==
    IF digits = << >> THEN 0
    ELSE NumberOf(SubSeq(digits, 1, Len(digits) - 1), radix) * radix
           + DigitValue(digits[Len(digits)])

RECURSIVE SkipSpaces(_, _)
\* the first position of s from i on that holds no space
SkipSpaces(s, i) ==
    IF i <= Len(s) /\ s[i] = " " THEN SkipSpaces(s, i + 1) ELSE i

NaN == [nan |-> TRUE, val |-> 0]

\* parseInt(string) without a radix: leading white space is skipped, a sign
\* is read, "0x" selects radix 16, and the digits up to the first other
\* character are the number; with no digit the result is NaN
parseInt(s) ==
    LET start == SkipSpaces(s, 1)
        signed == start <= Len(s) /\ s[start] \in { "-", "+" }
        negative == signed /\ s[start] = "-"
        first == IF signed THEN start + 1 ELSE start
        hex == first + 1 <= Len(s) /\ s[first] = "0" /\ s[first + 1] \in { "x", "X" }
        radix == IF hex THEN 16 ELSE 10
        digits == DigitsFrom(s, IF hex THEN first + 2 ELSE first, radix)
    IN  IF digits = << >> THEN NaN
        ELSE [nan |-> FALSE,
              val |-> IF negative THEN 0 - NumberOf(digits, radix)
                      ELSE NumberOf(digits, radix)]

\* Number.prototype.toString of a natural number
RECURSIVE NumberToString(_)
NumberToString(n) ==
    IF n < 10 THEN << DecimalDigits[n + 1] >>
    ELSE NumberToString(n \div 10) \o << DecimalDigits[(n % 10) + 1] >>

SyntaxError == [ok |-> FALSE, kind |-> "error", val |-> << >>]

\* JSON.parse of a scalar: a string without escapes, a number of decimal
\* digits, or null; anything else is a SyntaxError
JSONScalar(s) ==
    IF Len(s) >= 2 /\ << s[1] >> = Quote /\ << s[Len(s)] >> = Quote
       /\ \A i \in 2..(Len(s) - 1) : s[i] \notin { "\"", "\\" }
    THEN [ok |-> TRUE, kind |-> "string", val |-> SubSeq(s, 2, Len(s) - 1)]
    ELSE IF s = <<"n", "u", "l", "l">>
    THEN [ok |-> TRUE, kind |-> "null", val |-> << >>]
    ELSE IF s # << >> /\ DigitsFrom(s, 1, 10) = s /\ (Len(s) = 1 \/ s[1] # "0")
    THEN [ok |-> TRUE, kind |-> "number", val |-> s]
    ELSE SyntaxError

\* JSON.parse of the texts the view may find: a scalar or an array of
\* scalars (no nesting, no objects, no white space, no comma inside a
\* string); it throws a SyntaxError on anything else
JSONParse(s) ==
    IF Len(s) >= 2 /\ s[1] = "[" /\ s[Len(s)] = "]"
    THEN LET inner == SubSeq(s, 2, Len(s) - 1)
             pieces == IF inner = << >> THEN << >> ELSE SplitOnComma(inner, 1, EmptyString)
             items == [i \in DOMAIN pieces |-> JSONScalar(pieces[i])]
         IN  IF \A i \in DOMAIN items : items[i].ok
             THEN [ok |-> TRUE, kind |-> "array", val |-> items]
             ELSE SyntaxError
    ELSE JSONScalar(s)

RECURSIVE JoinComma(_)
\* Array.prototype.join(',')
JoinComma(parts) ==
    IF Len(parts) = 0 THEN EmptyString
    ELSE IF Len(parts) = 1 THEN parts[1]
    ELSE parts[1] \o Comma \o JoinComma(Tail(parts))

\* JSON.stringify of an array of strings that need no escape
JSONStringify(paths) ==
    <<"[">> \o JoinComma([i \in DOMAIN paths |-> Quote \o paths[i] \o Quote])
            \o <<"]">>

\* Set.prototype.add on a set kept in insertion order
SetAdd(set, x) == IF \E i \in DOMAIN set : set[i] = x THEN set ELSE Append(set, x)

\* the loop of lines 584-589 without the test of line 586
RECURSIVE ExpandLoopUnchecked(_, _, _)
ExpandLoopUnchecked(expanded, items, i) ==
    IF i > Len(items) THEN expanded
    ELSE ExpandLoopUnchecked(SetAdd(expanded, items[i].val), items, i + 1)

\* lines 584-589: expandedFolderPaths.forEach: a path is added when it is
\* the path of a folder
RECURSIVE ExpandLoop(_, _, _)
ExpandLoop(expanded, items, i) ==
    IF i > Len(items) THEN expanded
    ELSE ExpandLoop(
           IF items[i].kind = "string" /\ getAbstractFileByPath(items[i].val) = "TFolder"
           THEN SetAdd(expanded, items[i].val)
           ELSE expanded,
           items, i + 1)

\* a value of localStorage.getItem is truthy: neither null nor ""
Truthy(item) == item.def /\ item.val # EmptyString

\* lines 579-593: JSON.parse or forEach may throw, and the catch goes on
LoadExpanded ==
    IF ~Truthy(localStorage.expandedFolders) THEN expandedFolders
    ELSE LET parsed == JSONParse(localStorage.expandedFolders.val)
         IN  IF parsed.ok /\ parsed.kind = "array"
             THEN ExpandLoop(expandedFolders, parsed.val, 1)
             ELSE expandedFolders

\* lines 596-602
LoadSelectedFolder ==
    IF Truthy(localStorage.selectedFolder)
       /\ getAbstractFileByPath(localStorage.selectedFolder.val) = "TFolder"
    THEN Defined(localStorage.selectedFolder.val)
    ELSE selectedFolder

\* lines 605-611
LoadSelectedFile ==
    IF Truthy(localStorage.selectedFile)
       /\ getAbstractFileByPath(localStorage.selectedFile.val) = "TFile"
    THEN Defined(localStorage.selectedFile.val)
    ELSE selectedFile

\* lines 614-620
LoadLeftPaneWidth ==
    IF ~Truthy(localStorage.leftPaneWidth) THEN leftPaneWidth
    ELSE LET width == parseInt(localStorage.leftPaneWidth.val)
         IN  IF ~width.nan /\ width.val >= PaneWidthMin /\ width.val <= PaneWidthMax
             THEN width.val
             ELSE leftPaneWidth

\* what loadState and saveState leave alone
StateFrame == UNCHANGED << treeVars, timerVars, dropVars, leafVars, pinVars, closeVars >>

\* lines 577-621
loadState ==
    /\ loads < MaxLoads
    /\ loads' = loads + 1
    /\ expandedFolders' = LoadExpanded
    /\ selectedFolder' = LoadSelectedFolder
    /\ selectedFile' = LoadSelectedFile
    /\ leftPaneWidth' = LoadLeftPaneWidth
    /\ UNCHANGED localStorage
    /\ StateFrame

\* lines 629-649: the items saveState writes; the width is not among them
SavedState ==
    [localStorage EXCEPT
       !.expandedFolders = Defined(JSONStringify(expandedFolders)),
       !.selectedFolder = selectedFolder,
       !.selectedFile = selectedFile]

\* lines 629-649
saveState ==
    /\ localStorage' = SavedState
    /\ UNCHANGED << expandedFolders, selectedFolder, selectedFile, leftPaneWidth, loads >>
    /\ StateFrame

\* what localStorage may hold for the view: an array of paths as saveState
\* wrote it, the same cut short, other JSON, or nothing
StoredExpanded ==
    { Undefined, Defined(EmptyString),
      Defined(JSONStringify(<< >>)),
      Defined(JSONStringify(<< <<"t">> >>)),
      Defined(JSONStringify(<< <<"t">>, <<"t", "/", "b">> >>)),
      Defined(JSONStringify(<< <<"z", "z">>, <<"t">> >>)),
      Defined(JSONStringify(<< FileA >>)),
      Defined(<<"[">> \o Quote \o <<"t">> \o Quote),
      Defined(Quote \o <<"t">> \o Quote),
      Defined(<<"n", "u", "l", "l">>),
      Defined(<<"[", "1", "]">>),
      Defined(<<"{">>) }

StoredFolders ==
    { Undefined, Defined(EmptyString), Defined(RootPath), Defined(<<"t">>),
      Defined(<<"z", "z">>), Defined(FileA) }

StoredFiles ==
    { Undefined, Defined(EmptyString), Defined(FileA), Defined(FileZZ), Defined(<<"t">>) }

StoredWidths ==
    { Undefined, Defined(EmptyString),
      Defined(<<"1", "4", "9">>), Defined(<<"1", "5", "0">>),
      Defined(<<"6", "0", "0">>), Defined(<<"6", "0", "1">>),
      Defined(<<"2", "0", "0", "p", "x">>), Defined(<<"a", "b", "c">>),
      Defined(<<"-", "2", "0", "0">>), Defined(<<" ", "4", "0", "0">>),
      Defined(<<"0", "x", "1", "f", "4">>), Defined(<<"2", "5", "0", ".", "9">>) }

\* a new view over any stored state
InitState ==
    /\ vault = InitialVault
    /\ metadataCache = [f \in MarkdownFiles(AllPaths) |-> NoCache]
    /\ folderPath = EmptyString
    /\ tagTree = EmptyMap
    /\ heap = << >>
    /\ nextId = 1
    /\ noteCountCache = << >>
    /\ allBacklinksCache = [map |-> << >>, cacheReads |-> 0, resolved |-> 0]
    /\ last = NoQuery
    /\ edits = 0
    /\ memoDeps = -1
    /\ builds = 0
    /\ folders = FoldersOf(vault)
    /\ lastDrop = NoDrop
    /\ TimerInit
    /\ LeafInit
    /\ PinInit
    /\ CloseInit
    /\ localStorage \in [expandedFolders : StoredExpanded, selectedFolder : StoredFolders,
                         selectedFile : StoredFiles, leftPaneWidth : StoredWidths]
    /\ FieldInit

NextState ==
    \/ loadState
    \/ saveState

SpecState == InitState /\ [][NextState]_vars

\* ------------------------------------------------------------------------
\* NotebookNavigatorView: onClose and the resize handle
\* ------------------------------------------------------------------------
\* drags of the resize handle that end in a run
MaxDrags == 1

\* the widths a drag may give the left pane: line 665 keeps them within
\* the bounds
DragWidths == { PaneWidthMin, DefaultLeftPaneWidth, PaneWidthMax }

\* lines 412-441: a file of the vault is created, deleted, renamed or
\* modified while the view's handlers are registered
fileEvent ==
    /\ ~closed
    /\ debouncedFileListRefresh

\* lines 690-699: mousedown on the resize handle
mouseDownHandler ==
    /\ handleListener
    /\ saves < MaxDrags
    /\ resizing' = TRUE
    /\ documentListeners' = documentListeners \cup { "mousemove", "mouseup" }
    /\ UNCHANGED << closed, handleListener, styleWidth >>
    /\ UNCHANGED << treeVars, timerVars, dropVars, leafVars, pinVars, stateVars >>

\* lines 661-667: mousemove on the document during a drag
resizeMouseMoveHandler(newWidth) ==
    /\ "mousemove" \in documentListeners
    /\ resizing
    /\ styleWidth' = newWidth
    /\ UNCHANGED << closed, resizing, documentListeners, handleListener >>
    /\ UNCHANGED << treeVars, timerVars, dropVars, leafVars, pinVars, stateVars >>

\* lines 669-688: mouseup on the document ends the drag: both document
\* listeners are removed and the width is saved
resizeMouseUpHandler ==
    /\ "mouseup" \in documentListeners
    /\ resizing
    /\ resizing' = FALSE
    /\ documentListeners' = {}
    /\ leftPaneWidth' = styleWidth
    /\ saves' = saves + 1
    /\ localStorage' = [localStorage EXCEPT
                          !.leftPaneWidth = Defined(NumberToString(styleWidth))]
    /\ UNCHANGED << closed, handleListener, styleWidth >>
    /\ UNCHANGED << expandedFolders, selectedFolder, selectedFile, loads >>
    /\ UNCHANGED << pinnedNotes, cleanups >>
    /\ UNCHANGED << treeVars, timerVars, dropVars, leafVars >>

\* lines 550-569: the stored cleanups run (the mousedown listener goes,
\* line 702), the resize handlers are taken off the document, and the
\* state is saved; fileListRefreshTimer is not touched
onClose ==
    /\ ~closed
    /\ closed' = TRUE
    /\ handleListener' = FALSE
    /\ documentListeners' = {}
    /\ localStorage' = SavedState
    /\ UNCHANGED << resizing, styleWidth >>
    /\ UNCHANGED << expandedFolders, selectedFolder, selectedFile, leftPaneWidth, loads >>
    /\ UNCHANGED << treeVars, timerVars, dropVars, leafVars, pinVars >>

NextClose ==
    \/ Tick
    \/ fileEvent
    \/ \E t \in timers : TimerCallback(t)
    \/ mouseDownHandler
    \/ \E newWidth \in DragWidths : resizeMouseMoveHandler(newWidth)
    \/ resizeMouseUpHandler
    \/ onClose

SpecClose == InitDebounce /\ [][NextClose]_vars

\* ------------------------------------------------------------------------
\* The whole program
\* ------------------------------------------------------------------------
Next ==
    \/ Change
    \/ \E id \in DOMAIN heap : Count(id)
    \/ \E id \in DOMAIN heap : Collect(id)
    \/ \E path \in FindPaths : Find(path)
    \/ \E link \in KeyVault \cup { FileZZ } : GroupLink(link)
    \/ Return
    \/ Tick
    \/ fileEvent
    \/ \E t \in timers : TimerCallback(t)
    \/ \E sourcePath \in DropPaths, targetPath \in DropPaths, hostOk \in BOOLEAN :
          delegatedDrop(sourcePath, targetPath, hostOk)
    \/ \E sourcePath \in DropPaths, targetPath \in DropPaths, hostOk \in BOOLEAN :
          handleDrop(sourcePath, targetPath, hostOk)
    \/ \E showAfterAttach \in BOOLEAN, gotLeaf \in BOOLEAN, attached \in BOOLEAN :
          activateView(showAfterAttach, gotLeaf, attached)
    \/ \E gotLeaf \in BOOLEAN, attached \in BOOLEAN :
          revealFileInNavigator(gotLeaf, attached)
    \/ \E call \in pendingViewStates : setViewStateResolved(call)
    \/ cleanupPinnedNotes
    \/ loadState
    \/ saveState
    \/ mouseDownHandler
    \/ \E newWidth \in DragWidths : resizeMouseMoveHandler(newWidth)
    \/ resizeMouseUpHandler
    \/ onClose

Spec == Init /\ [][Next]_vars

\* ------------------------------------------------------------------------
\* Vocabulary of the properties
\* ------------------------------------------------------------------------
RECURSIVE SumNotes(_)
\* the sum of |notesWithTag| over the nodes of S
SumNotes(S) ==
    IF S = {} THEN 0
    ELSE LET n == CHOOSE x \in S : TRUE
         IN  Cardinality(heap[n].notesWithTag) + SumNotes(S \ {n})

\* the nodes of the subtree rooted at node id
Subtree(id) == Reach({id}, heap)

\* the children of node id
ChildrenOf(id) == { heap[id].children[c] : c \in DOMAIN heap[id].children }

RECURSIVE SumChildCounts(_)
\* the sum over the nodes of S of what getTotalNoteCount returns for them now
SumChildCounts(S) ==
    IF S = {} THEN 0
    ELSE LET n == CHOOSE x \in S : TRUE
         IN  getTotalNoteCount(n, heap, noteCountCache).count
                + SumChildCounts(S \ {n})

\* the parent of node id in the current tree, NULL for a root-level node
ParentOf(id) ==
    IF \E p \in TreeNodes : id \in ChildrenOf(p)
    THEN CHOOSE p \in TreeNodes : id \in ChildrenOf(p)
    ELSE NULL

\* a path with its last segment removed
DropLastSegment(path) ==
    LET parts == Split(path)
    IN  Join(SubSeq(parts, 1, Len(parts) - 1))

\* the tree is the one built from the vault and metadata as they are now
TreeIsCurrent == builds > 0 /\ memoDeps = edits

\* the elements of a sequence
Range(seq) == { seq[i] : i \in 1..Len(seq) }

\* the links the first pass iterates for note d (line 80)
LinksOf(d) ==
    IF metadataCache[d].cached /\ ConcatLinks(metadataCache[d]).def
    THEN Range(ConcatLinks(metadataCache[d]).val)
    ELSE {}

\* the (note, link) pairs whose link resolves to a file under folderPath
ConsideredLinks ==
    { dl \in MarkdownFiles(vault) \X LinkTexts :
        /\ dl[2] \in LinksOf(dl[1])
        /\ dl[2] \in vault
        /\ StartsWith(dl[2], folderPath) }

\* the path of the node a considered link lands on
NodePathOf(link) == Join(KeyParts(BacklinkPath(link, folderPath)))

\* p is q or an ancestor path of q
IsPathPrefix(p, q) ==
    LET pp == Split(p)
        qq == Split(q)
    IN  Len(pp) <= Len(qq) /\ SubSeq(qq, 1, Len(pp)) = pp

\* ------------------------------------------------------------------------
\* Properties
\* ------------------------------------------------------------------------
\* C1: with folderPath "", findBacklinkNode(k, tree) for a key k of the
\* grouping pass returns a node, whose notesWithTag is the set of notes
\* grouped under k.
C1_FindEveryKey ==
    (/\ last.op = "find"
     /\ TreeIsCurrent
     /\ folderPath = EmptyString
     /\ last.path \in DOMAIN allBacklinksCache.map)
    => /\ last.result \in TreeNodes
       /\ heap[last.result].notesWithTag = allBacklinksCache.map[last.path]

\* C2: the count getTotalNoteCount returns for a node is |notesWithTag| plus
\* the counts of its children, which is the sum of |notesWithTag| over the
\* node's subtree, whether it was computed or came from the cache.
C2_AggregateCount ==
    last.op = "count"
    => /\ last.count = Cardinality(heap[last.node].notesWithTag)
                          + SumChildCounts(ChildrenOf(last.node))
       /\ last.count = SumNotes(Subtree(last.node))

\* C2 witness: a count served from the cache for a node with a child and
\* notes at two nodes of its subtree.
C2_Witness ==
    /\ last.op = "count"
    /\ last.hit
    /\ ChildrenOf(last.node) # {}
    /\ last.count >= 2

\* C3: findBacklinkNode(n.path, tree) is n for every node n of the tree, and
\* findBacklinkNode of n.path without its last segment is n's parent.
C3_RoundTrip ==
    last.op = "find"
    => \A n \in TreeNodes :
         /\ last.path = heap[n].path => last.result = n
         /\ (ParentOf(n) # NULL /\ last.path = DropLastSegment(heap[n].path))
               => last.result = ParentOf(n)

\* C4: findBacklinkNode("", tree) and findBacklinkNode("/", tree) are null
\* for every tree, the empty tree and trees with a node named "" included.
C4_EmptyAndSlashNotFound ==
    (last.op = "find" /\ last.path \in { EmptyString, Slash })
    => last.result = NULL

\* C4 witness: "" or "/" has been looked up in a tree that has a root-level
\* node named "".
C4_Witness ==
    /\ last.op = "find"
    /\ last.path \in { EmptyString, Slash }
    /\ EmptyString \in DOMAIN tagTree

\* C5: a link that does not resolve, or resolves to a file whose path does
\* not start with folderPath, creates no node and puts its note in no
\* notesWithTag: every node lies on the path of a considered link, and every
\* note of a node has a considered link with that node's path. With
\* folderPath "" every resolved link the first pass iterates is considered.
C5_OnlyConsideredLinks ==
    TreeIsCurrent
    => /\ \A n \in TreeNodes :
            /\ \E dl \in ConsideredLinks :
                  IsPathPrefix(heap[n].path, NodePathOf(dl[2]))
            /\ \A d \in heap[n].notesWithTag :
                  \E dl \in ConsideredLinks :
                     dl[1] = d /\ NodePathOf(dl[2]) = heap[n].path
       /\ folderPath = EmptyString
            => \A d \in MarkdownFiles(vault) :
                 \A l \in LinksOf(d) \cap vault :
                    \E n \in TreeNodes :
                       heap[n].path = NodePathOf(l) /\ d \in heap[n].notesWithTag

\* C5 witness: folderPath is "t", a note links to the existing file "a.md"
\* outside t, and the tree built from that has nodes.
C5_Witness ==
    /\ TreeIsCurrent
    /\ folderPath = <<"t">>
    /\ TreeNodes # {}
    /\ \E d \in MarkdownFiles(vault) : FileA \in LinksOf(d) /\ FileA \in vault

\* C6: a build from an empty file list returns the empty Map without a
\* call to getFileCache or getFirstLinkpathDest, and findBacklinkNode of any
\* path against that Map is null.
C6_EmptyFileList ==
    (TreeIsCurrent /\ MarkdownFiles(vault) = {})
    => /\ tagTree = EmptyMap
       /\ allBacklinksCache.cacheReads = 0
       /\ allBacklinksCache.resolved = 0
       /\ last.op = "find" => last.result = NULL

\* C6 witness: a path of two segments has been looked up in the tree built
\* after the last markdown file was deleted.
C6_Witness ==
    /\ TreeIsCurrent
    /\ MarkdownFiles(vault) = {}
    /\ last.op = "find"
    /\ Len(FilterNonEmpty(Split(last.path))) = 2

\* C7: while the tree is the same, no step changes what getTotalNoteCount
\* returns for any node of it: the value is the same on every call, whatever
\* was counted before.
C7_CountIdempotent ==
    [][tagTree' = tagTree
          => \A n \in TreeNodes :
                getTotalNoteCount(n, heap, noteCountCache').count
                   = getTotalNoteCount(n, heap, noteCountCache).count]_vars

\* C7 witness: a node with notes in its subtree is counted again, from the
\* cache, after its parent was counted.
C7_Witness ==
    /\ last.op = "count"
    /\ last.hit
    /\ last.count >= 1
    /\ ParentOf(last.node) # NULL
    /\ CacheKey(heap, ParentOf(last.node)) \in DOMAIN noteCountCache

\* C8: collectAllBacklinkPaths(node) with no set supplied returns the set of
\* the paths of node and its descendants; node.path is in it.
C8_CollectSubtreePaths ==
    last.op = "collect"
    => /\ last.paths = { heap[n].path : n \in Subtree(last.node) }
       /\ heap[last.node].path \in last.paths
       /\ Cardinality(last.paths) >= 1

\* C8 witness: the paths of a node with a grandchild have been collected.
C8_Witness ==
    /\ last.op = "collect"
    /\ Cardinality(last.paths) >= 3

\* C9: findBacklinkNode raises nothing: for every path and every built tree
\* it returns a node of that tree or null.
C9_FindNeverRaises ==
    last.op = "find"
    => \/ last.result = NULL
       \/ last.result \in TreeNodes

\* C9 witness: a spelling that is not the node's path (a leading, doubled or
\* trailing "/") has been looked up and resolved to a node.
C9_Witness ==
    /\ last.op = "find"
    /\ last.result \in TreeNodes
    /\ last.path # heap[last.result].path

\* C10: once the tree has been rebuilt, getTotalNoteCount on a node of the
\* current tree returns the aggregate of the current tree, and every cache
\* entry a node of the current tree reaches holds that aggregate: no count
\* of a node of an earlier tree is served.
C10_NoStaleCount ==
    builds >= 2
    => /\ last.op = "count" => last.count = SumNotes(Subtree(last.node))
       /\ \A n \in TreeNodes :
             CacheKey(heap, n) \in DOMAIN noteCountCache
                => noteCountCache[CacheKey(heap, n)] = SumNotes(Subtree(n))

\* C10 witness: a node of the rebuilt tree has been counted while the cache
\* still holds a different count for a node of the earlier tree with the
\* same path.
C10_Witness ==
    /\ builds >= 2
    /\ last.op = "count"
    /\ \E old \in DOMAIN heap \ TreeNodes :
          /\ heap[old].path = heap[last.node].path
          /\ old \in DOMAIN noteCountCache
          /\ noteCountCache[old] # last.count

RECURSIVE NodeAtChain(_, _, _)
\* the node the chain of names parts[i..] leads to from the children map of
\* owner (the root map for NULL); NULL when a name of the chain is missing
NodeAtChain(parts, i, owner) ==
    IF i > Len(parts) THEN owner
    ELSE LET level == IF owner = NULL THEN tagTree ELSE heap[owner].children
         IN  IF parts[i] \in DOMAIN level
             THEN NodeAtChain(parts, i + 1, level[parts[i]])
             ELSE NULL

\* the node at which the second pass ends for key k
EndNode(k) == NodeAtChain(KeyParts(k), 1, NULL)

\* the keys of the grouping pass of the latest build
Keys == DOMAIN allBacklinksCache.map

\* C11: a node stored under key s has name s; a root-level node has path s;
\* a node stored under s in the children of p has path p.path + "/" + s; and
\* every proper prefix of a key of the grouping pass is the path of an
\* ancestor of the key's node.
C11_PathsFollowNames ==
    /\ \A s \in DOMAIN tagTree :
          heap[tagTree[s]].name = s /\ heap[tagTree[s]].path = s
    /\ \A p \in TreeNodes : \A s \in DOMAIN heap[p].children :
          LET c == heap[p].children[s]
          IN  heap[c].name = s /\ heap[c].path = heap[p].path \o Slash \o s
    /\ \A k \in Keys : \A i \in 1..(Len(KeyParts(k)) - 1) :
          LET anc == NodeAtChain(SubSeq(KeyParts(k), 1, i), 1, NULL)
          IN  /\ anc \in TreeNodes
              /\ heap[anc].path = Join(SubSeq(KeyParts(k), 1, i))
              /\ EndNode(k) \in Subtree(anc)

\* C11 witness: the tree has a node three levels deep, built from a key of
\* three segments.
C11_Witness ==
    \E k \in Keys :
       /\ Len(KeyParts(k)) = 3
       /\ EndNode(k) \in TreeNodes
       /\ ParentOf(EndNode(k)) # NULL
       /\ ParentOf(ParentOf(EndNode(k))) # NULL

C14_OneKeyOneNode ==
    /\ \A k1 \in Keys : \A k2 \in Keys :
          k1 # k2 => EndNode(k1) # EndNode(k2)
    /\ \A k \in Keys :
          /\ EndNode(k) \in TreeNodes
          /\ heap[EndNode(k)].notesWithTag = allBacklinksCache.map[k]

\* C14 witness: the build had two keys, one a prefix of the other, with
\* different note sets.
C14_Witness ==
    \E k1 \in Keys : \E k2 \in Keys :
       /\ k1 # k2
       /\ EndNode(k2) \in Subtree(EndNode(k1))
       /\ allBacklinksCache.map[k1] # allBacklinksCache.map[k2]

\* every link the cache holds for note d, in the body or in the frontmatter
AllLinksOf(d) ==
    IF metadataCache[d].cached
    THEN Range(metadataCache[d].links.val)
           \cup Range(metadataCache[d].frontmatterLinks.val)
    ELSE {}

\* the files under folderPath a link can resolve to
ConsideredTargets == { l \in vault : StartsWith(l, folderPath) }

\* the notes with a link, of either kind, that yields key k
NotesYielding(k) ==
    { d \in MarkdownFiles(vault) :
        \E l \in AllLinksOf(d) \cap ConsideredTargets :
           BacklinkPath(l, folderPath) = k }

\* C15: the note set of a key is exactly the set of notes with a body or
\* frontmatter link that yields the key: a note with several such links is
\* in it once, and every distinct such note, one linking to itself included,
\* is retained.
C15_SetSemantics ==
    TreeIsCurrent
    => \A l \in ConsideredTargets :
          LET k == BacklinkPath(l, folderPath)
          IN  IF NotesYielding(k) = {}
              THEN k \notin Keys
              ELSE k \in Keys /\ allBacklinksCache.map[k] = NotesYielding(k)

\* C15 restricted to the notes whose cache has body links
C15_WithBodyLinks ==
    TreeIsCurrent
    => \A l \in ConsideredTargets :
          LET k == BacklinkPath(l, folderPath)
              notes == { d \in NotesYielding(k) : metadataCache[d].links.def }
          IN  IF notes = {}
              THEN k \notin Keys
              ELSE k \in Keys /\ allBacklinksCache.map[k] = notes

\* the non-empty segments of a looked-up path
SegmentsOf(path) == FilterNonEmpty(Split(path))

\* C16: findBacklinkNode rejects a path only when it has no non-empty
\* segment; otherwise every spelling of the segments (leading "/", repeated
\* "/", trailing "/") gives the result of the plain "/"-joined spelling, a
\* single one-character segment included.
C16_SpellingsAgree ==
    last.op = "find"
    => LET s == SegmentsOf(last.path)
       IN  /\ s = << >> => last.result = NULL
           /\ s # << >> => last.result = findBacklinkNode(Join(s), Tree)
           /\ (s # << >> /\ last.result = NULL)
                 => NodeAtChain(s, 1, NULL) = NULL

\* C16 restricted to segment sequences whose plain spelling has two or more
\* characters
C16_LongerThanOne ==
    (last.op = "find" /\ Len(Join(SegmentsOf(last.path))) >= 2)
    => LET s == SegmentsOf(last.path)
       IN  /\ last.result = findBacklinkNode(Join(s), Tree)
           /\ last.result = NodeAtChain(s, 1, NULL)

\* the distinct notes at the nodes of S
NotesIn(S) == UNION { heap[n].notesWithTag : n \in S }

\* C17: the count getTotalNoteCount returns for a node is the number of
\* distinct notes that have the node's backlink or a descendant's, also
\* when one note links to several paths inside the subtree.
C17_CountsDistinctNotes ==
    last.op = "count"
    => last.count = Cardinality(NotesIn(Subtree(last.node)))

\* C17 restricted to subtrees in which no note is at two nodes
C17_DisjointSubtree ==
    (/\ last.op = "count"
     /\ \A m \in Subtree(last.node) : \A n \in Subtree(last.node) :
           m # n => heap[m].notesWithTag \cap heap[n].notesWithTag = {})
    => last.count = Cardinality(NotesIn(Subtree(last.node)))

\* C18: findBacklinkNode makes no partial match: when a segment of the
\* normalized path is missing at its level the result is null, and when all
\* segments exist the result is the node of the last segment.
C18_NoPartialMatch ==
    (last.op = "find" /\ SegmentsOf(last.path) # << >>)
    => last.result = NodeAtChain(SegmentsOf(last.path), 1, NULL)

\* the first half of C18: a path with a missing segment gives null
C18_MissingSegmentGivesNull ==
    (/\ last.op = "find"
     /\ SegmentsOf(last.path) # << >>
     /\ NodeAtChain(SegmentsOf(last.path), 1, NULL) = NULL)
    => last.result = NULL

\* a lookup of a path whose first segment exists and whose chain does not
C18_MissingSegmentSeen ==
    /\ last.op = "find"
    /\ Len(SegmentsOf(last.path)) >= 2
    /\ SegmentsOf(last.path)[1] \in DOMAIN tagTree
    /\ NodeAtChain(SegmentsOf(last.path), 1, NULL) = NULL

\* the suffixes line 92 removes
Suffixes == { ExtMd, ExtCanvas, ExtBase }

\* p without one trailing suffix
WithoutSuffix(p) ==
    IF \E e \in Suffixes : EndsWith(p, e)
    THEN CHOOSE q \in { SubSeq(p, 1, n) : n \in 0..Len(p) } :
            \E e \in Suffixes : q \o e = p
    ELSE p

\* C13: with folderPath non-empty, a link whose target path starts with
\* folderPath gets as key the target path without its leading folderPath
\* and the "/" after it, and without one trailing .md/.canvas/.base; nothing
\* else of the path is removed. With folderPath empty the key is the path
\* without that suffix.
C13_KeyIsPathUnderFolder ==
    (last.op = "key" /\ last.path \in vault)
    => IF folderPath = EmptyString
       THEN last.paths = { WithoutSuffix(last.path) }
       ELSE IF StartsWith(last.path, folderPath)
       THEN /\ StartsWith(last.path, folderPath \o Slash)
            /\ last.paths =
                 { WithoutSuffix(SubSeq(last.path, Len(folderPath) + 2,
                                        Len(last.path))) }
       ELSE last.paths = {}

\* C13 restricted to targets inside the folder: the path starts with
\* folderPath + "/"
C13_InsideFolder ==
    (/\ last.op = "key"
     /\ folderPath # EmptyString
     /\ StartsWith(last.path, folderPath \o Slash))
    => last.paths =
         { WithoutSuffix(SubSeq(last.path, Len(folderPath) + 2,
                                Len(last.path))) }

\* a target inside the folder with folderPath + "/" once more in its path
C13_InsideFolderSeen ==
    /\ last.op = "key"
    /\ folderPath # EmptyString
    /\ StartsWith(last.path, folderPath \o Slash)
    /\ IndexOf(SubSeq(last.path, Len(folderPath) + 2, Len(last.path)),
               folderPath \o Slash) # 0

\* a step in which debouncedFileListRefresh is called
Called == nextTimer' # nextTimer

\* a step in which the timer callback runs
CallbackRan == timers' # timers /\ nextTimer' = nextTimer

\* C19: a burst of calls of debouncedFileListRefresh, each less than 100 ms
\* after the one before, gets exactly one refreshFileList run, after its
\* last call: none has run when a call of the burst follows, and one has
\* run when the next burst begins; at most one timer is pending, and
\* pendingCountUpdate is false when the callback has run.
C19_OncePerBurst ==
    [][ /\ (Called /\ lastCall >= 0 /\ now - lastCall < Delay) => refreshed = 0
        /\ (Called /\ lastCall >= 0 /\ now - lastCall >= Delay) => refreshed = 1
        /\ CallbackRan => refreshed' = 1 /\ ~pendingCountUpdate'
        /\ Cardinality(timers') <= 1 ]_vars

\* C19, amended: a call cancels the timer of the call before it if that
\* has not run, so at most one timer is pending; the callback runs
\* refreshFileList no sooner than 100 ms after the latest call and once
\* only, leaving pendingCountUpdate false; and a pending timer leads to
\* that one run.
C19_Debounced ==
    /\ [][ /\ (Called /\ lastCall >= 0 /\ now - lastCall < Delay)
                => refreshed = 0
           /\ Called => timers' = { [id |-> fileListRefreshTimer',
                                     due |-> now + Delay] }
           /\ CallbackRan => /\ now >= lastCall + Delay
                             /\ refreshed = 0 /\ refreshed' = 1
                             /\ ~pendingCountUpdate'
           /\ Cardinality(timers') <= 1 ]_vars
    /\ (timers # {}) ~> (timers = {} /\ refreshed = 1)

\* C19 witness: two calls less than 100 ms apart, and the one refresh after
\* them: less than two delays have passed since the first call.
C19_Witness ==
    /\ nextTimer = 3
    /\ now < 2 * Delay
    /\ refreshed = 1
    /\ timers = {}
    /\ ~pendingCountUpdate

\* a drop event is handled in this step
Dropped == lastDrop'.n # lastDrop.n

\* path p lies below the folder at path q
LiesBelow(p, q) ==
    p # q /\ (q = RootPath \/ StartsWith(p, q \o Slash))

C20_CircularDropSeen ==
    /\ lastDrop.n > 0
    /\ lastDrop.sourcePath \in folders
    /\ LiesBelow(lastDrop.targetPath, lastDrop.sourcePath)
    /\ ~lastDrop.renamed

\* a drop on a folder that has an item of the source's name has been handled
C20_NameTakenSeen ==
    /\ lastDrop.n > 0
    /\ lastDrop.sourcePath \in vault
    /\ lastDrop.targetPath \in folders
    /\ lastDrop.sourcePath # lastDrop.targetPath \o Slash \o NameOf(lastDrop.sourcePath)
    /\ (lastDrop.targetPath \o Slash \o NameOf(lastDrop.sourcePath)) \in vault
    /\ ~lastDrop.renamed

\* the notes with a link, of either kind, to a file under folderPath
ReferencingNotes ==
    { d \in MarkdownFiles(vault) : AllLinksOf(d) \cap ConsideredTargets # {} }

\* C26: no referencing note is lost by the build: the union of notesWithTag
\* over the nodes of the tree is the set of the files with at least one link
\* that resolves to a target whose path starts with folderPath.
C26_NoNoteLost ==
    TreeIsCurrent => NotesIn(TreeNodes) = ReferencingNotes

\* C26 restricted to the notes whose cache has body links
C26_WithBodyLinks ==
    TreeIsCurrent
    => NotesIn(TreeNodes) =
         { d \in ReferencingNotes : metadataCache[d].links.def }

\* the orders the items of a list can come in
Shuffles(seq) ==
    { [i \in 1..Len(seq) |-> seq[p[i]]] : p \in Orders(1..Len(seq)) }

\* the cache of a file with its links in another order
CacheShuffles(fileCache) ==
    { [cached |-> fileCache.cached,
       links |-> [def |-> fileCache.links.def, val |-> l],
       frontmatterLinks |-> [def |-> fileCache.frontmatterLinks.def,
                             val |-> fl]] :
        l \in Shuffles(fileCache.links.val),
        fl \in Shuffles(fileCache.frontmatterLinks.val) }

\* the metadata cache with the links of each file in another order
ShuffledCaches ==
    { mc \in [DOMAIN metadataCache ->
                UNION { CacheShuffles(metadataCache[f]) :
                        f \in DOMAIN metadataCache }] :
        \A f \in DOMAIN metadataCache : mc[f] \in CacheShuffles(metadataCache[f]) }

\* the node paths of tree t, each with its notesWithTag
PathNotes(t) ==
    { << t.heap[n].path, t.heap[n].notesWithTag >> :
        n \in Reach({ t.root[k] : k \in DOMAIN t.root }, t.heap) }

\* C25: the build is insensitive to the order of its input: with allFiles
\* in any order and the links of each file in any order, the tree has the
\* node paths of the tree built and the same notesWithTag at each path.
C25_OrderInsensitive ==
    TreeIsCurrent
    => \A files \in Orders(MarkdownFiles(vault)) : \A mc \in ShuffledCaches :
          PathNotes(buildBacklinkTree(files, folderPath, mc, vault, 1))
            = PathNotes(Tree)

\* C25 witness: a tree of two or more nodes built from two or more files,
\* one of them with two different links.
C25_Witness ==
    /\ TreeIsCurrent
    /\ Cardinality(TreeNodes) >= 2
    /\ Cardinality(MarkdownFiles(vault)) >= 2
    /\ \E d \in MarkdownFiles(vault) :
          Cardinality(Range(ConcatLinks(metadataCache[d]).val) \cap vault) >= 2

\* C21: whatever calls of activateView have been made, interleaved at their
\* awaits or not, the workspace has at most one leaf of the navigator view
\* type.
C21_AtMostOneLeaf ==
    Cardinality(getLeavesOfType(ViewTypeNotebook)) <= 1

\* C21 restricted to runs in which no leaf was created while a setViewState
\* was pending
C21_WithoutOverlap ==
    ~overlapped => Cardinality(getLeavesOfType(ViewTypeNotebook)) <= 1

\* two calls, the second after the first has resolved, and one leaf
C21_SecondCallSeen ==
    /\ ~overlapped
    /\ activations >= 2
    /\ pendingViewStates = {}
    /\ Cardinality(getLeavesOfType(ViewTypeNotebook)) = 1

\* s is t with some elements left out, the others in their order
RECURSIVE IsSubsequence(_, _)
IsSubsequence(s, t) ==
    IF s = << >> THEN TRUE
    ELSE IF t = << >> THEN FALSE
    ELSE IF Head(s) = Head(t) THEN IsSubsequence(Tail(s), Tail(t))
    ELSE IsSubsequence(s, Tail(t))

\* how often x is in s
Occurrences(x, s) == Cardinality({ i \in DOMAIN s : s[i] = x })

\* the keys of a pinned-notes object, in order; the list of a key
PinnedKeysOf(o) == [i \in DOMAIN o |-> o[i].key]
PinnedOf(o, k) ==
    IF \E i \in DOMAIN o : o[i].key = k
    THEN o[CHOOSE i \in DOMAIN o : o[i].key = k].paths
    ELSE << >>

C22_NothingRemovedSeen ==
    /\ cleanups = 1
    /\ saves = 0
    /\ pinnedNotes.def
    /\ pinnedNotes.val # << >>

\* the folders and the files a path may name
ExistingFolders == folders \cup { RootPath }
ExistingFiles == vault

\* the stored text for expandedFolders is there and is no JSON
MalformedExpanded ==
    /\ Truthy(localStorage.expandedFolders)
    /\ ~JSONParse(localStorage.expandedFolders.val).ok

\* the stored width reads as an integer within the bounds
StoredWidthInRange ==
    /\ localStorage.leftPaneWidth.def
    /\ ~parseInt(localStorage.leftPaneWidth.val).nan
    /\ parseInt(localStorage.leftPaneWidth.val).val \in PaneWidthMin..PaneWidthMax

\* C23: after loadState every expanded folder is an existing folder,
\* selectedFolder is null or an existing folder, selectedFile is null or an
\* existing file, the pane width changes only to a stored width that parses
\* to an integer from 150 to 600; and when the stored JSON is malformed,
\* expandedFolders is as before and the selected folder, the selected file
\* and the width are restored all the same
C23_LoadValidates ==
    [][loads' # loads =>
         /\ \A i \in DOMAIN expandedFolders' : expandedFolders'[i] \in ExistingFolders
         /\ selectedFolder'.def => selectedFolder'.val \in ExistingFolders
         /\ selectedFile'.def => selectedFile'.val \in ExistingFiles
         /\ leftPaneWidth' # leftPaneWidth =>
               /\ StoredWidthInRange
               /\ leftPaneWidth' = parseInt(localStorage.leftPaneWidth.val).val
         /\ MalformedExpanded =>
               /\ expandedFolders' = expandedFolders
               /\ localStorage.selectedFolder.val \in ExistingFolders
                    => selectedFolder' = localStorage.selectedFolder
               /\ localStorage.selectedFile.val \in ExistingFiles
                    => selectedFile' = localStorage.selectedFile
               /\ StoredWidthInRange
                    => leftPaneWidth' = parseInt(localStorage.leftPaneWidth.val).val
      ]_vars

\* a load that restored a folder, a file, expanded folders and a width
C23_Witness ==
    /\ loads = 1
    /\ Len(expandedFolders) = 2
    /\ selectedFolder.def
    /\ selectedFile.def
    /\ leftPaneWidth # DefaultLeftPaneWidth

\* a load over malformed JSON that restored the selected folder
C23_MalformedSeen ==
    /\ loads = 1
    /\ MalformedExpanded
    /\ expandedFolders = << >>
    /\ selectedFolder.def
    /\ leftPaneWidth = PaneWidthMax

\* a load that left out a stored path that is no folder, and a stored width
\* out of range
C23_RejectedSeen ==
    /\ loads = 1
    /\ localStorage.expandedFolders = Defined(JSONStringify(<< <<"z", "z">>, <<"t">> >>))
    /\ expandedFolders = << <<"t">> >>
    /\ localStorage.leftPaneWidth = Defined(<<"6", "0", "1">>)
    /\ leftPaneWidth = DefaultLeftPaneWidth

\* C24: once onClose has run, the callback of debouncedFileListRefresh's
\* timer does not run refreshFileList any more
C24_NoRefreshAfterClose ==
    [][closed => ~(refreshed' > refreshed)]_vars

\* C24, the resize listeners: once onClose has run, no mousemove or mouseup
\* listener of the view is on the document and none is added
C24_NoResizeListenerAfterClose ==
    closed => (documentListeners = {} /\ ~handleListener)

\* the view was closed during a drag
C24_ClosedDuringDragSeen ==
    /\ closed
    /\ resizing

\* the view was closed with the refresh timer pending
C24_ClosedWithTimerSeen ==
    /\ closed
    /\ timers # {}

====
